---- MODULE Spec2Model ----
(***************************************************************************)
(* CPU voxel ray tracer (src/main.c): voxel grid, ray/AABB slab clipping,  *)
(* Amanatides-Woo 3D DDA traversal, and the per-frame renderer.            *)
(*                                                                         *)
(* Number representation.  The program computes in float (IEEE-754         *)
(* binary32, every operation rounded to nearest, ties to even).  The model *)
(* computes the same values: a float is held as the integer whose          *)
(* magnitude is the bit pattern of the float's magnitude and whose sign is *)
(* the float's sign, so 1.0f is 1065353216 and -1.0f is -1065353216.  This *)
(* numbering is monotone: a < b on numbers is a < b on the integers,       *)
(* fabsf of a number is Abs and negation is unary minus.  +0.0f and -0.0f  *)
(* are the one integer 0; the program never divides by zero and compares   *)
(* them equal.                                                             *)
(* The infinities are +-2139095040 and every integer of larger magnitude   *)
(* is a NaN; an operation that yields a NaN yields the one value NaN (the  *)
(* default NaN of the processor), the program reads neither the sign nor   *)
(* the payload of a NaN.  F32Add, F32Mul, F32Div and F32Sqrt compute the   *)
(* correctly rounded result from the significands with integer arithmetic. *)
(*                                                                         *)
(* Conversion of a float to int is undefined in C when the value is a NaN  *)
(* or outside the range of int.  What a build returns there is left open   *)
(* between the conversions in Conversions.                                 *)
(*                                                                         *)
(* cosf, sinf and tanf are C library functions; the model holds the values *)
(* they return at the arguments the renderer passes (LibmCos, LibmSin,     *)
(* FOV_SCALE).                                                             *)
(***************************************************************************)
EXTENDS Integers, Sequences, FiniteSets, TLC

VARIABLES
    voxels,         \* g_state.voxels, kept by its non-zero entries: index -> id
    time_s,         \* g_state.time_s
    freeze_camera,  \* g_state.freeze_camera
    request_quit,   \* g_state.request_quit
    frame_ms,       \* g_state.frame_ms
    fps_smooth,     \* g_state.fps_smooth
    pixels,         \* g_state.pixels, IMG_W*IMG_H colours
    frame_stats,    \* g_state.frame_stats
    rcall,          \* the render_voxel_image call in progress: dt and the state at entry
    rloop,          \* its locals: cam, basis, ray_step_x, y, x, ray, pixel_index, stats
    ncalls,         \* history: number of render_voxel_image calls made so far
    last_call,      \* history: the latest render_voxel_image call
    prev_call,      \* history: the call made immediately before it
    last_set,       \* history: the latest set_voxel call and the grid before it
    nsets,          \* history: number of set_voxel calls made so far
    ro, rd,         \* the ray handed to trace_ray_amanatides_woo
    pc,             \* position inside trace_ray_amanatides_woo
    dda,            \* locals of trace_ray_amanatides_woo
    clip,           \* what ray_aabb returned for the ray
    result,         \* the TraceResult returned
    visited,        \* history: cells at which the voxel array was read
    stepped         \* history: axis advanced by the latest iteration, with tMax

vars == <<voxels, time_s, freeze_camera, request_quit, frame_ms, fps_smooth,
          pixels, frame_stats, rcall, rloop, ncalls, last_call, prev_call,
          last_set, nsets, ro, rd, pc, dda, clip, result, visited, stepped>>

appVars   == <<time_s, freeze_camera, request_quit, frame_ms, fps_smooth,
               pixels, frame_stats, rcall, rloop, ncalls, last_call,
               prev_call, last_set, nsets>>
traceVars == <<ro, rd, pc, dda, clip, result, visited, stepped>>

-----------------------------------------------------------------------------
(* Program constants *)

(* The program renders 320 x 180 pixels; the model renders a smaller image *)
(* with the same per-pixel code.                                           *)
IMG_W == 4
IMG_H == 3
GRID_X == 24
GRID_Y == 16
GRID_Z == 24
GRID_SIZE == GRID_X * GRID_Y * GRID_Z
MAX_ITER == 256

-----------------------------------------------------------------------------
(* float arithmetic *)

Abs(a) == IF a < 0 THEN -a ELSE a
Max(a, b) == IF a > b THEN a ELSE b
Min(a, b) == IF a < b THEN a ELSE b
Sign(a) == IF a < 0 THEN -1 ELSE 1

Pow2Table == [i \in 1..31 |-> 2^(i - 1)]
Pow2(n) == Pow2Table[n + 1]

(* One step of the binary search for the top bit of m: n + k when m has a  *)
(* bit at position n + k or above, else n.                                 *)
BitLenFrom(m, n, k) == IF m \div Pow2(n) >= Pow2(k) THEN n + k ELSE n

(* Number of significant bits of m, 0 <= m < 2^31. *)
BitLen(m) ==
    IF m = 0 THEN 0
    ELSE 1 + BitLenFrom(m, BitLenFrom(m, BitLenFrom(m, BitLenFrom(m,
                 BitLenFrom(m, 0, 16), 8), 4), 2), 1)

(* The float +infinity (exponent field 255, fraction 0). *)
F32_INFINITY == 255 * Pow2(23)

(* The NaN an invalid operation returns (bit pattern 0xFFC00000). *)
NaN == -(F32_INFINITY + Pow2(22))

IsNaN(a) == Abs(a) > F32_INFINITY
IsInf(a) == Abs(a) = F32_INFINITY
IsFinite(a) == Abs(a) < F32_INFINITY

(* The comparisons a < b, a > b, a <= b and a == b of two floats: false    *)
(* when either is a NaN.                                                   *)
F32Less(a, b) == ~IsNaN(a) /\ ~IsNaN(b) /\ a < b
F32Greater(a, b) == ~IsNaN(a) /\ ~IsNaN(b) /\ a > b
F32LessEq(a, b) == ~IsNaN(a) /\ ~IsNaN(b) /\ a <= b
F32Equal(a, b) == ~IsNaN(a) /\ ~IsNaN(b) /\ a = b

fabsf(a) == IF IsNaN(a) THEN NaN ELSE Abs(a)

(* fmaxf and fminf return the other argument when one is a NaN. *)
fmaxf(a, b) == IF IsNaN(a) THEN b ELSE IF IsNaN(b) THEN a ELSE Max(a, b)
fminf(a, b) == IF IsNaN(a) THEN b ELSE IF IsNaN(b) THEN a ELSE Min(a, b)

(* base + q, one more when the remainder r is above half, or is half and   *)
(* the exact value is above it (sticky) or q is odd (ties to even).        *)
RoundUp(base, q, r, half, sticky) ==
    base + q + (IF r > half \/ (r = half /\ (sticky \/ q % 2 = 1)) THEN 1 ELSE 0)

(* m * 2^e rounded to the exponent e1 = e + sh. *)
RoundShift(m, e1, sh, sticky) ==
    IF e1 > 104 THEN F32_INFINITY
    ELSE IF sh <= 0 THEN (e1 + 149) * Pow2(23) + m * Pow2(-sh)
    ELSE IF sh > 30 THEN 0
    ELSE RoundUp((e1 + 149) * Pow2(23), m \div Pow2(sh), m % Pow2(sh),
                 Pow2(sh - 1), sticky)

(* The float nearest to m * 2^e (ties to even), as a magnitude.  sticky    *)
(* says that the exact value lies strictly between m * 2^e and             *)
(* (m + 1) * 2^e; with sticky set m has at least 26 significant bits.      *)
(* The result keeps 24 bits of m, fewer below the normal range             *)
(* (subnormal floats).                                                     *)
F32RoundAt(m, e, e1, sticky) == RoundShift(m, e1, e1 - e, sticky)

F32Round(m, e, sticky) ==
    IF m = 0 THEN 0
    ELSE F32RoundAt(m, e, Max(e + BitLen(m) - 24, -149), sticky)

(* A subnormal's fraction f scaled by 2^k into [2^23, 2^24). *)
SubnormalParts(f, k) == [m |-> f * Pow2(k), e |-> -149 - k]

(* From the exponent field ef and the fraction field f. *)
PartsOf(ef, f) ==
    IF ef > 0 THEN [m |-> Pow2(23) + f, e |-> ef - 150]
    ELSE SubnormalParts(f, 24 - BitLen(f))

(* Significand m (scaled into [2^23, 2^24)) and exponent e of a positive   *)
(* finite float: its value is m * 2^e.                                     *)
F32Parts(b) == PartsOf(b \div Pow2(23), b % Pow2(23))

(* The 48-bit product as hi * 2^24 + lo, lo below 2^25, rounded. *)
MulJoin(hi, lo, e, sgn) ==
    sgn * F32Round((hi + lo \div Pow2(24)) * Pow2(6)
                       + (lo % Pow2(24)) \div Pow2(18),
                   e, lo % Pow2(18) # 0)

MulSum(hh, mid, ll, e, sgn) ==
    MulJoin(hh + mid \div Pow2(12), ll + (mid % Pow2(12)) * Pow2(12), e, sgn)

MulHalves(xh, xl, yh, yl, e, sgn) ==
    MulSum(xh * yh, xh * yl + xl * yh, xl * yl, e, sgn)

MulParts(x, y, sgn) ==
    MulHalves(x.m \div Pow2(12), x.m % Pow2(12), y.m \div Pow2(12),
              y.m % Pow2(12), x.e + y.e + 18, sgn)

(* a * b with an infinity or a NaN among the operands. *)
MulSpecial(a, b) ==
    IF IsNaN(a) \/ IsNaN(b) \/ a = 0 \/ b = 0 THEN NaN
    ELSE Sign(a) * Sign(b) * F32_INFINITY

(* a * b: the 48-bit product of the significands from 12-bit halves. *)
F32Mul(a, b) ==
    IF ~(IsFinite(a) /\ IsFinite(b)) THEN MulSpecial(a, b)
    ELSE IF a = 0 \/ b = 0 THEN 0
    ELSE MulParts(F32Parts(Abs(a)), F32Parts(Abs(b)), Sign(a) * Sign(b))

(* Long division: k more quotient digits (k a power of two). *)
DivStep(s, y, k) == [q |-> s.q * k + (s.r * k) \div y, r |-> (s.r * k) % y]

(* x / y to 26 bits past the integer part, with the remainder. *)
DivDigits(x, y) ==
    DivStep(DivStep(DivStep(DivStep(DivStep([q |-> x \div y, r |-> x % y],
        y, 64), y, 64), y, 64), y, 64), y, 4)

DivRound(s, e, sgn) == sgn * F32Round(s.q, e, s.r # 0)

DivParts(x, y, sgn) == DivRound(DivDigits(x.m, y.m), x.e - y.e - 26, sgn)

(* a / b with an infinity or a NaN among the operands, or b = 0 (taken as *)
(* +0.0f).                                                                *)
DivSpecial(a, b) ==
    IF IsNaN(a) \/ IsNaN(b) THEN NaN
    ELSE IF IsInf(a) THEN (IF IsInf(b) THEN NaN ELSE Sign(a) * Sign(b) * F32_INFINITY)
    ELSE IF IsInf(b) THEN 0
    ELSE IF a = 0 THEN NaN
    ELSE Sign(a) * F32_INFINITY

(* a / b: long division of the significands to 26 quotient bits. *)
F32Div(a, b) ==
    IF ~(IsFinite(a) /\ IsFinite(b)) \/ b = 0 THEN DivSpecial(a, b)
    ELSE IF a = 0 THEN 0
    ELSE DivParts(F32Parts(Abs(a)), F32Parts(Abs(b)), Sign(a) * Sign(b))

(* q with its last bit set when bits were shifted out (st). *)
Jam(q, st) == IF st /\ q % 2 = 0 THEN q + 1 ELSE q

AddSum(xm, yy, same, e, sgn) ==
    sgn * F32Round(IF same THEN xm * 8 + yy ELSE xm * 8 - yy, e, FALSE)

AddAligned(x, y, d, same, sgn) ==
    AddSum(x.m,
           IF d > 30 THEN 1
           ELSE Jam((y.m * 8) \div Pow2(d), (y.m * 8) % Pow2(d) # 0),
           same, x.e - 3, sgn)

AddParts(x, y, same, sgn) == AddAligned(x, y, x.e - y.e, same, sgn)

(* big + sml, |big| >= |sml| > 0 *)
AddOrdered(big, sml) ==
    AddParts(F32Parts(Abs(big)), F32Parts(Abs(sml)), Sign(big) = Sign(sml),
             Sign(big))

(* a + b with an infinity or a NaN among the operands. *)
AddSpecial(a, b) ==
    IF IsNaN(a) \/ IsNaN(b) \/ (IsInf(a) /\ IsInf(b) /\ a # b) THEN NaN
    ELSE IF IsInf(a) THEN a
    ELSE b

(* a + b: the smaller operand is aligned to the larger one with three      *)
(* extra bits, the last of which collects every bit shifted out.           *)
F32Add(a, b) ==
    IF ~(IsFinite(a) /\ IsFinite(b)) THEN AddSpecial(a, b)
    ELSE IF a = 0 THEN b
    ELSE IF b = 0 THEN a
    ELSE AddOrdered(IF Abs(a) >= Abs(b) THEN a ELSE b,
                    IF Abs(a) >= Abs(b) THEN b ELSE a)

(* a - b *)
F32Sub(a, b) == F32Add(a, -b)

(* Digit-by-digit square root of m2 * 4^14: the 13 pairs of bits of m2     *)
(* and then 14 pairs of zeros, from the top; k pairs remain.               *)
RECURSIVE SqrtDigits(_, _, _, _)
SqrtDigits(m2, root, rem, k) ==
    IF k = 0 THEN [root |-> root, rem |-> rem]
    ELSE LET pair == IF k > 14 THEN (m2 \div Pow2(2 * (k - 15))) % 4 ELSE 0
             r1   == rem * 4 + pair
             t    == root * 4 + 1
         IN  IF r1 >= t THEN SqrtDigits(m2, root * 2 + 1, r1 - t, k - 1)
             ELSE SqrtDigits(m2, root * 2, r1, k - 1)

SqrtRound(s, e) == F32Round(s.root, e, s.rem # 0)

(* The significand is doubled when the exponent is odd. *)
SqrtParts(x, odd) ==
    SqrtRound(SqrtDigits(IF odd THEN x.m * 2 ELSE x.m, 0, 0, 27),
              (IF odd THEN x.e - 1 ELSE x.e) \div 2 - 14)

SqrtOf(x) == SqrtParts(x, x.e % 2 # 0)

(* sqrtf(a) *)
F32Sqrt(a) ==
    IF a = 0 THEN 0
    ELSE IF IsNaN(a) \/ a < 0 THEN NaN
    ELSE IF IsInf(a) THEN a
    ELSE SqrtOf(F32Parts(a))

(* The range of int. *)
INT_MAX == 2147483647
INT_MIN == -INT_MAX - 1

(* The float 2^31 (exponent field 158): the floats a with                 *)
(* -2^31 <= a < 2^31 are those whose integer part is an int.              *)
F32_TWO31 == 158 * Pow2(23)

(* (float) n for an int n *)
F32FromInt(n) ==
    IF n = INT_MIN THEN -F32_TWO31 ELSE Sign(n) * F32Round(Abs(n), 0, FALSE)

WholeOf(x) ==
    IF x.e >= 0 THEN [n |-> x.m * Pow2(x.e), exact |-> TRUE]
    ELSE IF x.e < -30 THEN [n |-> 0, exact |-> FALSE]
    ELSE [n |-> x.m \div Pow2(-x.e), exact |-> x.m % Pow2(-x.e) = 0]

(* The integer part of |a| and whether a is an integer, |a| < 2^31. *)
F32Whole(a) ==
    IF a = 0 THEN [n |-> 0, exact |-> TRUE] ELSE WholeOf(F32Parts(Abs(a)))

FloorOf(a, w) == IF a >= 0 THEN w.n ELSE IF w.exact THEN -w.n ELSE -w.n - 1

(* What the conversion of a float to int may return where C leaves it      *)
(* undefined: "indefinite" is the x86 conversion instruction, which        *)
(* returns INT_MIN for every such operand; "saturating" is the conversion  *)
(* that returns the nearest int, and 0 for a NaN.                          *)
Conversions == {"indefinite", "saturating"}

(* a is a NaN or its integer part is outside the range of int. *)
IntUndefined(a) == IsNaN(a) \/ a < -F32_TWO31 \/ a >= F32_TWO31

(* (int) a for such an a, under the conversion conv. *)
UndefinedInt(a, conv) ==
    IF conv = "indefinite" THEN INT_MIN
    ELSE IF IsNaN(a) THEN 0
    ELSE IF a > 0 THEN INT_MAX
    ELSE INT_MIN

(* (int) floorf(a) *)
F32Floor(a, conv) ==
    IF IntUndefined(a) THEN UndefinedInt(a, conv)
    ELSE IF a = -F32_TWO31 THEN INT_MIN
    ELSE FloorOf(a, F32Whole(a))

(* (int) a: the conversion truncates toward zero. *)
F32Trunc(a, conv) ==
    IF IntUndefined(a) THEN UndefinedInt(a, conv)
    ELSE IF a = -F32_TWO31 THEN INT_MIN
    ELSE Sign(a) * F32Whole(a).n

(* The float m * 2^-k, exact for |m| < 2^24. *)
Dyadic(m, k) == Sign(m) * F32Round(Abs(m), -k, FALSE)

(* The float a decimal literal n / 10^k denotes (n < 2^24, k <= 9): n and  *)
(* 10^k are floats, and the correctly rounded quotient of two floats is    *)
(* the float nearest to the exact quotient.                                *)
Dec(n, k) == Sign(n) * F32Div(F32FromInt(Abs(n)), F32FromInt(10^k))

(* 1.0f *)
F32_ONE == F32FromInt(1)
(* 1e-6f, the epsilon of axis_slab, of the tMax set-up and of the dt guard *)
EPSILON == Dec(1, 6)
(* 1e30f (bit pattern 0x7149F2CA), the program's "infinity" *)
INF == 1900671690

Vec(x, y, z) == [x |-> x, y |-> y, z |-> z]

(* raymath.h *)
Vector3Add(a, b) == Vec(F32Add(a.x, b.x), F32Add(a.y, b.y), F32Add(a.z, b.z))
Vector3Subtract(a, b) ==
    Vec(F32Sub(a.x, b.x), F32Sub(a.y, b.y), F32Sub(a.z, b.z))
Vector3Scale(a, k) == Vec(F32Mul(a.x, k), F32Mul(a.y, k), F32Mul(a.z, k))
Vector3DotProduct(a, b) ==
    F32Add(F32Add(F32Mul(a.x, b.x), F32Mul(a.y, b.y)), F32Mul(a.z, b.z))
Vector3CrossProduct(a, b) ==
    Vec(F32Sub(F32Mul(a.y, b.z), F32Mul(a.z, b.y)),
        F32Sub(F32Mul(a.z, b.x), F32Mul(a.x, b.z)),
        F32Sub(F32Mul(a.x, b.y), F32Mul(a.y, b.x)))
Vector3Length(v) ==
    F32Sqrt(F32Add(F32Add(F32Mul(v.x, v.x), F32Mul(v.y, v.y)),
                   F32Mul(v.z, v.z)))
NormalizeBy(v, length) ==
    IF F32Equal(length, 0) THEN v ELSE Vector3Scale(v, F32Div(F32_ONE, length))
Vector3Normalize(v) == NormalizeBy(v, Vector3Length(v))

-----------------------------------------------------------------------------
(* Voxel grid *)

clamp_i32(v, lo, hi) == IF v < lo THEN lo ELSE IF v > hi THEN hi ELSE v

clamp_f32(v, lo, hi) ==
    IF F32Less(v, lo) THEN lo ELSE IF F32Greater(v, hi) THEN hi ELSE v

voxel_index(x, y, z) == x + y * GRID_X + z * GRID_X * GRID_Y

(* Faulty variant: the upper bounds are tested with <=. *)
inside_grid_lax(x, y, z) ==
    x >= 0 /\ x <= GRID_X /\ y >= 0 /\ y <= GRID_Y /\ z >= 0 /\ z <= GRID_Z

inside_grid(x, y, z) ==
    x >= 0 /\ x < GRID_X /\ y >= 0 /\ y < GRID_Y /\ z >= 0 /\ z < GRID_Z

EmptyGrid == [i \in {} |-> 0]

(* g_state.voxels[i] *)
VoxelAt(vx, i) == IF i \in DOMAIN vx THEN vx[i] ELSE 0

(* g_state.voxels[i] = value *)
StoreVoxel(vx, i, value) ==
    IF value = 0
    THEN [j \in DOMAIN vx \ {i} |-> vx[j]]
    ELSE (i :> value) @@ vx

(* Faulty variant: set_voxel guarded by the off-by-one bounds test. *)
set_voxel_lax(vx, x, y, z, value) ==
    IF inside_grid_lax(x, y, z)
    THEN StoreVoxel(vx, voxel_index(x, y, z), value)
    ELSE vx

set_voxel(vx, x, y, z, value) ==
    IF inside_grid(x, y, z)
    THEN StoreVoxel(vx, voxel_index(x, y, z), value)
    ELSE vx

(* The set_voxel calls of build_scene, in program order: the ground plane, *)
(* the red column, the green wall, the blue column.                        *)
SceneCalls ==
    [k \in 1..(GRID_Z * GRID_X) |->
        <<(k - 1) % GRID_X, 0, (k - 1) \div GRID_X, 1>>]
    \o [k \in 1..20 |->
        <<8 + ((k - 1) % 2), ((k - 1) \div 4) + 1, 8 + (((k - 1) % 4) \div 2), 2>>]
    \o [k \in 1..15 |-> <<14 + ((k - 1) % 5), ((k - 1) \div 5) + 1, 14, 3>>]
    \o [k \in 1..7 |-> <<17, k, 6, 4>>]

(* A sequence of set_voxel calls applied in order: a cell ends with the    *)
(* value of the last call that writes it (set_voxel writes exactly when    *)
(* inside_grid holds), or keeps its old value.                             *)
ApplyCalls(vx, calls) ==
    LET target(c) == IF inside_grid(c[1], c[2], c[3])
                     THEN voxel_index(c[1], c[2], c[3]) ELSE -1
        writers(j) == {k \in DOMAIN calls : target(calls[k]) = j}
        last(j)    == CHOOSE k \in writers(j) : \A m \in writers(j) : m <= k
        val(j)     == IF writers(j) = {} THEN VoxelAt(vx, j) ELSE calls[last(j)][4]
        touched    == DOMAIN vx \cup {target(calls[k]) : k \in DOMAIN calls}
    IN  [j \in {i \in touched : i >= 0 /\ val(i) # 0} |-> val(j)]

(* build_scene: memset, then the set_voxel calls. *)
build_scene == ApplyCalls(EmptyGrid, SceneCalls)

sample_voxel_color(id) ==
    CASE id = 1 -> Vec(Dec(28, 2), Dec(30, 2), Dec(33, 2))
      [] id = 2 -> Vec(Dec(95, 2), Dec(30, 2), Dec(18, 2))
      [] id = 3 -> Vec(Dec(15, 2), Dec(75, 2), Dec(35, 2))
      [] id = 4 -> Vec(Dec(20, 2), Dec(45, 2), Dec(95, 2))
      [] OTHER  -> Vec(F32_ONE, F32_ONE, F32_ONE)

(* { 0.46608496f, 0.8474272f, 0.25422817f }: bit patterns 0x3EEEA2B0,      *)
(* 0x3F58F0FD, 0x3E822A32.                                                 *)
LIGHT_DIR == Vec(1055826608, 1062793469, 1048717874)

-----------------------------------------------------------------------------
(* Ray / AABB clipping *)

(* Lines 170-172: the interval clipped to [t_a, t_b]. *)
SlabClip(t_a, t_b, tmin, tmax) ==
    [ok |-> TRUE, tmin |-> fmaxf(tmin, t_a), tmax |-> fminf(tmax, t_b)]

(* Faulty variant: the two crossing distances are not ordered. *)
SlabOrdered_noswap(t_a, t_b, tmin, tmax) == SlabClip(t_a, t_b, tmin, tmax)

(* Lines 164-172: the crossing distances put in order, then the clip. *)
SlabOrdered(t_a, t_b, tmin, tmax) ==
    IF F32Greater(t_a, t_b) THEN SlabClip(t_b, t_a, tmin, tmax)
    ELSE SlabClip(t_a, t_b, tmin, tmax)

(* Lines 162-172 with inv = 1.0f / dir. *)
SlabCross(orig, inv, mn, mx, tmin, tmax) ==
    SlabOrdered(F32Mul(F32Sub(mn, orig), inv), F32Mul(F32Sub(mx, orig), inv),
                tmin, tmax)

(* The return value (ok) and the interval after the call. *)
axis_slab(orig, dir, mn, mx, tmin, tmax) ==
    IF F32Less(fabsf(dir), EPSILON)
    THEN [ok |-> ~(F32Less(orig, mn) \/ F32Greater(orig, mx)),
          tmin |-> tmin, tmax |-> tmax]
    ELSE SlabCross(orig, F32Div(F32_ONE, dir), mn, mx, tmin, tmax)

(* ray_aabb returning false; the caller initialised both distances to 0. *)
AabbMiss == [hit |-> FALSE, t0 |-> 0, t1 |-> 0]

(* Faulty variant: the final test compares tmax with tmin alone, so a box *)
(* wholly behind the origin counts as hit.                                *)
AabbEnd_behind(sz) ==
    IF ~sz.ok THEN AabbMiss
    ELSE IF F32Less(sz.tmax, sz.tmin) THEN AabbMiss
    ELSE [hit |-> TRUE, t0 |-> sz.tmin, t1 |-> sz.tmax]

(* Lines 183-188, sz being what the z slab returned. *)
AabbEnd(sz) ==
    IF ~sz.ok THEN AabbMiss
    ELSE IF F32Less(sz.tmax, fmaxf(sz.tmin, 0)) THEN AabbMiss
    ELSE [hit |-> TRUE, t0 |-> sz.tmin, t1 |-> sz.tmax]

(* Lines 182-188, sy being what the y slab returned. *)
AabbZ(o, d, sy) ==
    IF ~sy.ok THEN AabbMiss
    ELSE AabbEnd(axis_slab(o.z, d.z, 0, F32FromInt(GRID_Z), sy.tmin, sy.tmax))

(* Lines 182-188, sx being what the x slab returned. *)
AabbY(o, d, sx) ==
    IF ~sx.ok THEN AabbMiss
    ELSE AabbZ(o, d, axis_slab(o.y, d.y, 0, F32FromInt(GRID_Y),
                               sx.tmin, sx.tmax))

(* The result: hit, and the out parameters (written only on a hit; the     *)
(* caller initialises both to 0.0f).                                       *)
ray_aabb(o, d) ==
    AabbY(o, d, axis_slab(o.x, d.x, 0, F32FromInt(GRID_X), -INF, INF))

-----------------------------------------------------------------------------
(* Amanatides-Woo traversal *)

(* Lines 197 and 299: the sky gradient term. *)
Sky(d) == clamp_f32(F32Mul(Dec(5, 1), F32Add(d.y, F32_ONE)), 0, F32_ONE)

(* Line 202: the colour of a ray that stays outside the grid. *)
NoEntryColor(sky) ==
    Vec(F32Add(Dec(55, 2), F32Mul(Dec(2, 1), sky)),
        F32Add(Dec(7, 1), F32Mul(Dec(15, 2), sky)), Dec(95, 2))

(* Lines 197-204: the result for a ray that never entered the grid. *)
NoEntryResult(d) ==
    [hit |-> FALSE, entered_grid |-> FALSE, steps |-> 0,
     col |-> NoEntryColor(Sky(d))]

(* Line 304: the colour of a ray that crossed the grid and found nothing. *)
MissColor(sky) ==
    Vec(F32Add(Dec(5, 1), F32Mul(Dec(3, 1), sky)),
        F32Add(Dec(65, 2), F32Mul(Dec(2, 1), sky)), Dec(95, 2))

(* Lines 299-306: the result for a ray that entered and found nothing. *)
MissResult(d, steps) ==
    [hit |-> FALSE, entered_grid |-> TRUE, steps |-> steps,
     col |-> MissColor(Sky(d))]

(* Lines 266-277: Lambert + height-based ambient term of a hit at cell_y   *)
(* with the normal of the last crossed face.                               *)
HitResult(s, id) ==
    LET base  == sample_voxel_color(id)
        n     == Vec(F32FromInt(s.normal[1]), F32FromInt(s.normal[2]),
                     F32FromInt(s.normal[3]))
        ndotl == fmaxf(Vector3DotProduct(n, LIGHT_DIR), 0)
        ao    == F32Add(Dec(7, 1),
                        F32Mul(Dec(3, 1),
                               F32Div(F32FromInt(s.cell_y), F32FromInt(GRID_Y))))
        k     == F32Add(Dec(2, 1), F32Mul(F32Mul(Dec(8, 1), ndotl), ao))
    IN  [hit |-> TRUE, entered_grid |-> TRUE, steps |-> s.steps,
         col |-> Vector3Scale(base, k)]

StepDir(c) == IF F32Greater(c, 0) THEN 1 ELSE -1

(* Faulty variant: the start cell is clamped to the grid size instead of   *)
(* the last cell.                                                          *)
StartCell_clamp_to_size(p, conv) ==
    <<clamp_i32(F32Floor(p.x, conv), 0, GRID_X),
      clamp_i32(F32Floor(p.y, conv), 0, GRID_Y),
      clamp_i32(F32Floor(p.z, conv), 0, GRID_Z)>>

(* Lines 212-214: the cell of the start point, clamped into the grid. *)
StartCell(p, conv) ==
    <<clamp_i32(F32Floor(p.x, conv), 0, GRID_X - 1),
      clamp_i32(F32Floor(p.y, conv), 0, GRID_Y - 1),
      clamp_i32(F32Floor(p.z, conv), 0, GRID_Z - 1)>>

(* Lines 223-227 for one axis: the first boundary ahead of the cell. *)
NextBoundary(cell, step) == F32FromInt(cell + (IF step > 0 THEN 1 ELSE 0))

(* Lines 229-250 for one axis: the first crossing and the increment. *)
TMaxInit(t, dcomp, boundary, pcomp) ==
    IF F32Greater(fabsf(dcomp), EPSILON)
    THEN F32Add(t, F32Div(F32Sub(boundary, pcomp), dcomp))
    ELSE INF

TDeltaInit(dcomp) ==
    IF F32Greater(fabsf(dcomp), EPSILON)
    THEN fabsf(F32Div(F32_ONE, dcomp))
    ELSE INF

(* Lines 217-253: the locals from the start cell on. *)
DdaFromCell(d, t, t_exit, p, cell) ==
    [cell_x |-> cell[1], cell_y |-> cell[2], cell_z |-> cell[3],
     step_x |-> StepDir(d.x), step_y |-> StepDir(d.y), step_z |-> StepDir(d.z),
     t |-> t, t_exit |-> t_exit,
     t_max_x |-> TMaxInit(t, d.x, NextBoundary(cell[1], StepDir(d.x)), p.x),
     t_max_y |-> TMaxInit(t, d.y, NextBoundary(cell[2], StepDir(d.y)), p.y),
     t_max_z |-> TMaxInit(t, d.z, NextBoundary(cell[3], StepDir(d.z)), p.z),
     t_delta_x |-> TDeltaInit(d.x),
     t_delta_y |-> TDeltaInit(d.y),
     t_delta_z |-> TDeltaInit(d.z),
     normal |-> <<0, 1, 0>>, steps |-> 0, i |-> 0]

(* Lines 212-253: the locals from the start point p on. *)
DdaFromPoint(d, t, t_exit, p, conv) ==
    DdaFromCell(d, t, t_exit, p, StartCell(p, conv))

(* Lines 209-253: the locals from the start distance t on. *)
DdaFromT(o, d, t, t_exit, conv) ==
    DdaFromPoint(d, t, t_exit, Vector3Add(o, Vector3Scale(d, t)), conv)

(* Lines 207-253: the locals on entry to the loop. *)
DdaInit(o, d, c, conv) == DdaFromT(o, d, fmaxf(c.t0, 0), c.t1, conv)

(* Faulty variant: the exit test uses the off-by-one bounds test. *)
LoopBreak_lax(s) ==
    ~inside_grid_lax(s.cell_x, s.cell_y, s.cell_z) \/ F32Greater(s.t, s.t_exit)

(* Line 258: the loop's own exit test. *)
LoopBreak(s) ==
    ~inside_grid(s.cell_x, s.cell_y, s.cell_z) \/ F32Greater(s.t, s.t_exit)

(* Faulty variant: the comparisons are <=, so a tie goes to the earlier axis. *)
StepAxis_x_first(s) ==
    IF F32LessEq(s.t_max_x, s.t_max_y) /\ F32LessEq(s.t_max_x, s.t_max_z)
    THEN "x"
    ELSE IF F32LessEq(s.t_max_y, s.t_max_z) THEN "y"
    ELSE "z"

(* Lines 281, 286, 291: the axis the loop advances along. *)
StepAxis(s) ==
    IF F32Less(s.t_max_x, s.t_max_y) /\ F32Less(s.t_max_x, s.t_max_z) THEN "x"
    ELSE IF F32Less(s.t_max_y, s.t_max_z) THEN "y"
    ELSE "z"

(* Faulty variant: the x branch adds t_delta_y to t_max_x. *)
Advance_wrong_delta(s) ==
    LET a == StepAxis(s)
        n == [s EXCEPT !.steps = s.steps + 1, !.i = s.i + 1]
    IN  CASE a = "x" -> [n EXCEPT !.cell_x = s.cell_x + s.step_x,
                                  !.t = s.t_max_x,
                                  !.t_max_x = F32Add(s.t_max_x, s.t_delta_y),
                                  !.normal = <<-s.step_x, 0, 0>>]
          [] a = "y" -> [n EXCEPT !.cell_y = s.cell_y + s.step_y,
                                  !.t = s.t_max_y,
                                  !.t_max_y = F32Add(s.t_max_y, s.t_delta_y),
                                  !.normal = <<0, -s.step_y, 0>>]
          [] a = "z" -> [n EXCEPT !.cell_z = s.cell_z + s.step_z,
                                  !.t = s.t_max_z,
                                  !.t_max_z = F32Add(s.t_max_z, s.t_delta_z),
                                  !.normal = <<0, 0, -s.step_z>>]

(* Lines 261 and 281-296 for an empty cell: count the step, advance. *)
Advance(s) ==
    LET a == StepAxis(s)
        n == [s EXCEPT !.steps = s.steps + 1, !.i = s.i + 1]
    IN  CASE a = "x" -> [n EXCEPT !.cell_x = s.cell_x + s.step_x,
                                  !.t = s.t_max_x,
                                  !.t_max_x = F32Add(s.t_max_x, s.t_delta_x),
                                  !.normal = <<-s.step_x, 0, 0>>]
          [] a = "y" -> [n EXCEPT !.cell_y = s.cell_y + s.step_y,
                                  !.t = s.t_max_y,
                                  !.t_max_y = F32Add(s.t_max_y, s.t_delta_y),
                                  !.normal = <<0, -s.step_y, 0>>]
          [] a = "z" -> [n EXCEPT !.cell_z = s.cell_z + s.step_z,
                                  !.t = s.t_max_z,
                                  !.t_max_z = F32Add(s.t_max_z, s.t_delta_z),
                                  !.normal = <<0, 0, -s.step_z>>]

(* The index the loop reads at line 264. *)
ReadIndex(s) == voxel_index(s.cell_x, s.cell_y, s.cell_z)

(* Lines 256-306: the loop run to its return. *)
RECURSIVE DdaLoop(_, _, _)
DdaLoop(vx, d, s) ==
    IF s.i >= MAX_ITER \/ LoopBreak(s) THEN MissResult(d, s.steps)
    ELSE LET id == VoxelAt(vx, ReadIndex(s))
         IN  IF id # 0
             THEN HitResult([s EXCEPT !.steps = s.steps + 1], id)
             ELSE DdaLoop(vx, d, Advance(s))

(* Lines 196-306, c being what ray_aabb returned. *)
TraceClipped(vx, o, d, c, conv) ==
    IF ~c.hit THEN NoEntryResult(d)
    ELSE DdaLoop(vx, d, DdaInit(o, d, c, conv))

(* conv: what the build's float-to-int conversion returns where it is      *)
(* undefined (lines 212-214).                                              *)
trace_ray_amanatides_woo(vx, o, d, conv) ==
    TraceClipped(vx, o, d, ray_aabb(o, d), conv)

-----------------------------------------------------------------------------
(* Camera and frame renderer *)

(* The C library's cosf at orbit_t = time_s * 0.6f, and its sinf at        *)
(* orbit_t and at orbit_t * 0.7f (argument :> value, both as floats), for  *)
(* the camera times k/8 s, k = 0..32, for the times of the first 120       *)
(* frames at 60 frames per second, and for every time_s that up to four    *)
(* passes of main's loop reach with the frame times 1e-5f, 1/60 s, 0.125f  *)
(* and 0.25f.                                                              *)
LibmCos ==
    (0 :> 1065353216) @@ (919163804 :> 1065353216)
    @@ (927552412 :> 1065353216) @@ (932642485 :> 1065353216)
    @@ (935941020 :> 1065353216) @@ (1008981771 :> 1065352377)
    @@ (1008988214 :> 1065352376) @@ (1008994656 :> 1065352375)
    @@ (1008994657 :> 1065352375) @@ (1009001098 :> 1065352374)
    @@ (1009001100 :> 1065352374) @@ (1017370379 :> 1065349861)
    @@ (1017373600 :> 1065349859) @@ (1017373601 :> 1065349859)
    @@ (1017376821 :> 1065349857) @@ (1017376822 :> 1065349857)
    @@ (1022739089 :> 1065345667) @@ (1022742310 :> 1065345664)
    @@ (1025758987 :> 1065339796) @@ (1028443342 :> 1065332249)
    @@ (1031127696 :> 1065323026) @@ (1032805417 :> 1065312129)
    @@ (1033476506 :> 1065306052) @@ (1033477311 :> 1065306045)
    @@ (1033478116 :> 1065306037) @@ (1033478922 :> 1065306030)
    @@ (1034147595 :> 1065299558) @@ (1034818683 :> 1065292645)
    @@ (1034819488 :> 1065292636) @@ (1034820294 :> 1065292628)
    @@ (1035489772 :> 1065285314) @@ (1036160861 :> 1065277566)
    @@ (1036161666 :> 1065277556) @@ (1036161667 :> 1065277556)
    @@ (1036831950 :> 1065269400) @@ (1037503038 :> 1065260817)
    @@ (1037503039 :> 1065260817) @@ (1038174127 :> 1065251816)
    @@ (1039516304 :> 1065232565) @@ (1040522937 :> 1065211648)
    @@ (1041194025 :> 1065189068) @@ (1041865114 :> 1065164826)
    @@ (1041865517 :> 1065164811) @@ (1041865919 :> 1065164796)
    @@ (1041865920 :> 1065164796) @@ (1041866322 :> 1065164781)
    @@ (1041866324 :> 1065164781) @@ (1042536202 :> 1065138925)
    @@ (1042536203 :> 1065138925) @@ (1042536605 :> 1065138909)
    @@ (1042536606 :> 1065138909) @@ (1042537008 :> 1065138893)
    @@ (1042537010 :> 1065138893) @@ (1043207291 :> 1065111369)
    @@ (1043207292 :> 1065111368) @@ (1043207694 :> 1065111351)
    @@ (1043207696 :> 1065111351) @@ (1043878380 :> 1065082158)
    @@ (1043878382 :> 1065082158) @@ (1044549471 :> 1065051297)
    @@ (1045220560 :> 1065018789) @@ (1045891649 :> 1064984636)
    @@ (1046562739 :> 1064948842) @@ (1046898279 :> 1064930331)
    @@ (1046898682 :> 1064930309) @@ (1046899084 :> 1064930286)
    @@ (1046899085 :> 1064930286) @@ (1047233828 :> 1064911411)
    @@ (1047569367 :> 1064892083) @@ (1047569368 :> 1064892083)
    @@ (1047569770 :> 1064892060) @@ (1047569771 :> 1064892060)
    @@ (1047904917 :> 1064872347) @@ (1048240456 :> 1064852203)
    @@ (1048240457 :> 1064852203) @@ (1048576003 :> 1064831653)
    @@ (1048911548 :> 1064789333) @@ (1049247092 :> 1064745392)
    @@ (1049582637 :> 1064699834) @@ (1049918182 :> 1064652664)
    @@ (1050253722 :> 1064603887) @@ (1050253726 :> 1064603886)
    @@ (1050253924 :> 1064603857) @@ (1050254125 :> 1064603827)
    @@ (1050589266 :> 1064553506) @@ (1050589270 :> 1064553505)
    @@ (1050589468 :> 1064553475) @@ (1050924810 :> 1064501528)
    @@ (1050924811 :> 1064501528) @@ (1050924814 :> 1064501527)
    @@ (1051260358 :> 1064447956) @@ (1051595902 :> 1064392798)
    @@ (1051931446 :> 1064336058) @@ (1052266990 :> 1064277743)
    @@ (1052602534 :> 1064217857) @@ (1052770304 :> 1064187327)
    @@ (1052770506 :> 1064187290) @@ (1052938078 :> 1064156407)
    @@ (1053105849 :> 1064125097) @@ (1053273622 :> 1064093399)
    @@ (1053609166 :> 1064028839) @@ (1053944710 :> 1063962734)
    @@ (1054280254 :> 1063895090) @@ (1054615798 :> 1063825915)
    @@ (1054951342 :> 1063755214) @@ (1055286886 :> 1063682996)
    @@ (1055286887 :> 1063682995) @@ (1055287089 :> 1063682951)
    @@ (1055622430 :> 1063609266) @@ (1055622431 :> 1063609266)
    @@ (1055957974 :> 1063534034) @@ (1056293518 :> 1063457306)
    @@ (1056629062 :> 1063379089) @@ (1056964606 :> 1063299393)
    @@ (1057132379 :> 1063218224) @@ (1057300151 :> 1063135590)
    @@ (1057384039 :> 1063093726) @@ (1057467923 :> 1063051501)
    @@ (1057635695 :> 1062965965) @@ (1057803467 :> 1062878989)
    @@ (1057971239 :> 1062790583) @@ (1058139011 :> 1062700756)
    @@ (1058306783 :> 1062609516) @@ (1058474555 :> 1062516873)
    @@ (1058642327 :> 1062422835) @@ (1058642330 :> 1062422834)
    @@ (1058810100 :> 1062327413) @@ (1058977872 :> 1062230616)
    @@ (1059145644 :> 1062132453) @@ (1059313416 :> 1062032935)
    @@ (1059481188 :> 1061932071) @@ (1059648960 :> 1061829872)
    @@ (1059816732 :> 1061726347) @@ (1059900621 :> 1061674089)
    @@ (1059984504 :> 1061621507) @@ (1060152276 :> 1061515363)
    @@ (1060320048 :> 1061407925) @@ (1060487820 :> 1061299203)
    @@ (1060655592 :> 1061189209) @@ (1060823364 :> 1061077954)
    @@ (1060991136 :> 1060965449) @@ (1061158908 :> 1060851705)
    @@ (1061158912 :> 1060851702) @@ (1061326680 :> 1060736733)
    @@ (1061494452 :> 1060620545) @@ (1061662224 :> 1060503153)
    @@ (1061829996 :> 1060384568) @@ (1061997768 :> 1060264802)
    @@ (1062165540 :> 1060143868) @@ (1062333312 :> 1060021776)
    @@ (1062417204 :> 1059960296) @@ (1062501084 :> 1059898540)
    @@ (1062668856 :> 1059774172) @@ (1062836628 :> 1059648684)
    @@ (1063004400 :> 1059522089) @@ (1063172172 :> 1059394399)
    @@ (1063339944 :> 1059265627) @@ (1063507716 :> 1059135786)
    @@ (1063675488 :> 1059004890) @@ (1063675495 :> 1059004884)
    @@ (1063843260 :> 1058872950) @@ (1064011032 :> 1058739981)
    @@ (1064178804 :> 1058605995) @@ (1064346576 :> 1058471007)
    @@ (1064514348 :> 1058335029) @@ (1064682120 :> 1058198075)
    @@ (1064849892 :> 1058060159) @@ (1064933786 :> 1057990837)
    @@ (1065017664 :> 1057921294) @@ (1065185436 :> 1057781495)
    @@ (1065353208 :> 1057640775) @@ (1065437098 :> 1057499149)
    @@ (1065520984 :> 1057356631) @@ (1065604870 :> 1057213234)
    @@ (1065688756 :> 1057068974) @@ (1065772642 :> 1056883121)
    @@ (1065772647 :> 1056883104) @@ (1065856528 :> 1056591233)
    @@ (1065940414 :> 1056297704) @@ (1066024300 :> 1056002564)
    @@ (1066108186 :> 1055705842) @@ (1066192072 :> 1055407569)
    @@ (1066275958 :> 1055107774) @@ (1066359844 :> 1054806487)
    @@ (1066401792 :> 1054655275) @@ (1066443730 :> 1054503738)
    @@ (1066527616 :> 1054199557) @@ (1066611502 :> 1053893975)
    @@ (1066695388 :> 1053587022) @@ (1066779274 :> 1053278730)
    @@ (1066863160 :> 1052969128) @@ (1066947046 :> 1052658248)
    @@ (1067030932 :> 1052346122) @@ (1067030938 :> 1052346099)
    @@ (1067660084 :> 1049968562) @@ (1068289229 :> 1046496072)
    @@ (1068918375 :> 1041548379) @@ (1069547520 :> 1032904362)
    @@ (1070176666 :> -998883139) @@ (1070805812 :> -1034029615)
    @@ (1071434957 :> -1042106255) @@ (1072064103 :> -1047046063)
    @@ (1072693249 :> -1050238073) @@ (1073322394 :> -1052608601)
    @@ (1073846682 :> -1054909297) @@ (1074161255 :> -1057045914)
    @@ (1074475828 :> -1058107255) @@ (1074790400 :> -1059115005)
    @@ (1075104973 :> -1060063503) @@ (1075419546 :> -1060947415)

LibmSin ==
    (0 :> 0) @@ (915205562 :> 915205562) @@ (919163804 :> 919163804)
    @@ (923594170 :> 923594170) @@ (927552412 :> 927552412)
    @@ (928212119 :> 928212119) @@ (931982778 :> 931982778)
    @@ (932642485 :> 932642485) @@ (935941020 :> 935941020)
    @@ (1004888130 :> 1004888007) @@ (1004897151 :> 1004897028)
    @@ (1004906169 :> 1004906046) @@ (1004906171 :> 1004906048)
    @@ (1004915188 :> 1004915065) @@ (1004915191 :> 1004915068)
    @@ (1008981771 :> 1008981592) @@ (1008988214 :> 1008988035)
    @@ (1008994656 :> 1008994476) @@ (1008994657 :> 1008994477)
    @@ (1009001098 :> 1009000918) @@ (1009001100 :> 1009000920)
    @@ (1013276738 :> 1013276247) @@ (1013281248 :> 1013280757)
    @@ (1013281249 :> 1013280758) @@ (1013285757 :> 1013285265)
    @@ (1013285759 :> 1013285267) @@ (1017370379 :> 1017369663)
    @@ (1017373600 :> 1017372884) @@ (1017373601 :> 1017372885)
    @@ (1017376821 :> 1017376104) @@ (1017376822 :> 1017376105)
    @@ (1017907250 :> 1017906421) @@ (1017909505 :> 1017908676)
    @@ (1021665346 :> 1021663382) @@ (1022739089 :> 1022736673)
    @@ (1022742310 :> 1022739893) @@ (1024416810 :> 1024414892)
    @@ (1025758987 :> 1025756124) @@ (1026295857 :> 1026292543)
    @@ (1028174905 :> 1028169642) @@ (1028443342 :> 1028437750)
    @@ (1029114430 :> 1029107957) @@ (1029115557 :> 1029109082)
    @@ (1029116684 :> 1029110208) @@ (1029117812 :> 1029111334)
    @@ (1030053954 :> 1030046098) @@ (1030993478 :> 1030984056)
    @@ (1030994605 :> 1030985181) @@ (1030995733 :> 1030986307)
    @@ (1031127696 :> 1031118034) @@ (1031865893 :> 1031860301)
    @@ (1032335655 :> 1032329078) @@ (1032336219 :> 1032329641)
    @@ (1032336220 :> 1032329642) @@ (1032805417 :> 1032797746)
    @@ (1032805418 :> 1032797747) @@ (1033275179 :> 1033266299)
    @@ (1033275180 :> 1033266300) @@ (1033476506 :> 1033467071)
    @@ (1033477311 :> 1033467874) @@ (1033478116 :> 1033468677)
    @@ (1033478922 :> 1033469481) @@ (1033744942 :> 1033734733)
    @@ (1034147595 :> 1034136145) @@ (1034684465 :> 1034671211)
    @@ (1034818683 :> 1034804950) @@ (1034819488 :> 1034805752)
    @@ (1034820294 :> 1034806555) @@ (1035489772 :> 1035473471)
    @@ (1035623990 :> 1035607140) @@ (1036160861 :> 1036141691)
    @@ (1036161666 :> 1036142492) @@ (1036161667 :> 1036142493)
    @@ (1036563513 :> 1036542469) @@ (1036831950 :> 1036809592)
    @@ (1037503038 :> 1037477157) @@ (1037503039 :> 1037477158)
    @@ (1037503602 :> 1037477718) @@ (1037504165 :> 1037478277)
    @@ (1037504166 :> 1037478278) @@ (1037504729 :> 1037478838)
    @@ (1037504732 :> 1037478841) @@ (1038174127 :> 1038144371)
    @@ (1038442561 :> 1038411153) @@ (1038442562 :> 1038411154)
    @@ (1038443125 :> 1038411713) @@ (1038443127 :> 1038411715)
    @@ (1038443689 :> 1038412274) @@ (1038443692 :> 1038412277)
    @@ (1039382086 :> 1039344416) @@ (1039382087 :> 1039344417)
    @@ (1039382650 :> 1039344976) @@ (1039382653 :> 1039344979)
    @@ (1039516304 :> 1039477677) @@ (1040254501 :> 1040232145)
    @@ (1040254502 :> 1040232146) @@ (1040522937 :> 1040498385)
    @@ (1040724265 :> 1040697974) @@ (1041194025 :> 1041163364)
    @@ (1041194027 :> 1041163366) @@ (1041663789 :> 1041628299)
    @@ (1041865114 :> 1041827408) @@ (1041865517 :> 1041827806)
    @@ (1041865919 :> 1041828204) @@ (1041865920 :> 1041828205)
    @@ (1041866322 :> 1041828602) @@ (1041866324 :> 1041828604)
    @@ (1042133552 :> 1042092751) @@ (1042368430 :> 1042324785)
    @@ (1042368712 :> 1042325064) @@ (1042368994 :> 1042325342)
    @@ (1042368995 :> 1042325343) @@ (1042536202 :> 1042490448)
    @@ (1042536203 :> 1042490449) @@ (1042536605 :> 1042490846)
    @@ (1042536606 :> 1042490846) @@ (1042537008 :> 1042491243)
    @@ (1042537010 :> 1042491245) @@ (1042603315 :> 1042556698)
    @@ (1042838192 :> 1042788471) @@ (1042838193 :> 1042788472)
    @@ (1042838474 :> 1042788749) @@ (1042838475 :> 1042788750)
    @@ (1043073077 :> 1043020118) @@ (1043207291 :> 1043152419)
    @@ (1043207292 :> 1043152420) @@ (1043207694 :> 1043152817)
    @@ (1043207696 :> 1043152819) @@ (1043307954 :> 1043251619)
    @@ (1043307955 :> 1043251619) @@ (1043542839 :> 1043482987)
    @@ (1043878380 :> 1043813256) @@ (1043878382 :> 1043813258)
    @@ (1044012602 :> 1043945285) @@ (1044482364 :> 1044406987)
    @@ (1044549471 :> 1044472893) @@ (1044952127 :> 1044868072)
    @@ (1045220560 :> 1045131260) @@ (1045421890 :> 1045328517)
    @@ (1045891646 :> 1045788292) @@ (1045891649 :> 1045788295)
    @@ (1045891651 :> 1045788297) @@ (1045891929 :> 1045788568)
    @@ (1045892210 :> 1045788843) @@ (1046361407 :> 1046247386)
    @@ (1046361413 :> 1046247392) @@ (1046361690 :> 1046247662)
    @@ (1046562739 :> 1046443931) @@ (1046831169 :> 1046705773)
    @@ (1046831170 :> 1046705774) @@ (1046831175 :> 1046705779)
    @@ (1046898279 :> 1046771199) @@ (1046898682 :> 1046771592)
    @@ (1046899084 :> 1046771984) @@ (1046899085 :> 1046771985)
    @@ (1047233828 :> 1047098102) @@ (1047300936 :> 1047163435)
    @@ (1047569367 :> 1047424612) @@ (1047569368 :> 1047424613)
    @@ (1047569770 :> 1047425004) @@ (1047569771 :> 1047425005)
    @@ (1047770698 :> 1047620339) @@ (1047904917 :> 1047750743)
    @@ (1048240456 :> 1048076464) @@ (1048240457 :> 1048076465)
    @@ (1048240459 :> 1048076467) @@ (1048576003 :> 1048401789)
    @@ (1048643110 :> 1048531797) @@ (1048877991 :> 1048781154)
    @@ (1048911548 :> 1048813587) @@ (1048995430 :> 1048894623)
    @@ (1048995572 :> 1048894760) @@ (1049112872 :> 1049007989)
    @@ (1049230312 :> 1049121244) @@ (1049247092 :> 1049137417)
    @@ (1049347753 :> 1049234391) @@ (1049582634 :> 1049460350)
    @@ (1049582637 :> 1049460353) @@ (1049817514 :> 1049685854)
    @@ (1049918182 :> 1049782361) @@ (1050052395 :> 1049910893)
    @@ (1050253722 :> 1050103405) @@ (1050253726 :> 1050103409)
    @@ (1050253924 :> 1050103598) @@ (1050254125 :> 1050103790)
    @@ (1050287276 :> 1050135455) @@ (1050522157 :> 1050359531)
    @@ (1050589266 :> 1050423461) @@ (1050589270 :> 1050423465)
    @@ (1050589468 :> 1050423654) @@ (1050757038 :> 1050583108)
    @@ (1050757180 :> 1050583243) @@ (1050924810 :> 1050742494)
    @@ (1050924811 :> 1050742495) @@ (1050924814 :> 1050742498)
    @@ (1050991918 :> 1050806174) @@ (1050991919 :> 1050806175)
    @@ (1051226799 :> 1051028721) @@ (1051260358 :> 1051060475)
    @@ (1051461680 :> 1051250737) @@ (1051595902 :> 1051377365)
    @@ (1051696561 :> 1051472211) @@ (1051931442 :> 1051693132)
    @@ (1051931446 :> 1051693136) @@ (1052166322 :> 1051913488)
    @@ (1052266990 :> 1052007756) @@ (1052401203 :> 1052133271)
    @@ (1052518646 :> 1052242946) @@ (1052602534 :> 1052321194)
    @@ (1052636084 :> 1052352468) @@ (1052770304 :> 1052477459)
    @@ (1052770506 :> 1052477647) @@ (1052870965 :> 1052571069)
    @@ (1052938078 :> 1052633419) @@ (1053105846 :> 1052789063)
    @@ (1053105849 :> 1052789066) @@ (1053273622 :> 1052944400)
    @@ (1053340726 :> 1053006439) @@ (1053575607 :> 1053223188)
    @@ (1053609166 :> 1053254104) @@ (1053810488 :> 1053439298)
    @@ (1053944710 :> 1053562502) @@ (1054045369 :> 1053654759)
    @@ (1054280250 :> 1053869559) @@ (1054280254 :> 1053869563)
    @@ (1054515132 :> 1054083690) @@ (1054615798 :> 1054175255)
    @@ (1054750013 :> 1054297140) @@ (1054951342 :> 1054479549)
    @@ (1054984893 :> 1054509897) @@ (1055219774 :> 1054721953)
    @@ (1055286886 :> 1054782413) @@ (1055286887 :> 1054782414)
    @@ (1055287089 :> 1054782596) @@ (1055454655 :> 1054933297)
    @@ (1055622430 :> 1055083818) @@ (1055622431 :> 1055083819)
    @@ (1055689536 :> 1055143919) @@ (1055924417 :> 1055353807)
    @@ (1055957974 :> 1055383733) @@ (1056041861 :> 1055458477)
    @@ (1056159297 :> 1055562952) @@ (1056293518 :> 1055682129)
    @@ (1056394178 :> 1055771344) @@ (1056629059 :> 1055978972)
    @@ (1056629062 :> 1055978975) @@ (1056863940 :> 1056185827)
    @@ (1056964606 :> 1056274242) @@ (1057031714 :> 1056391897)
    @@ (1057132379 :> 1056567900) @@ (1057149155 :> 1056597174)
    @@ (1057266595 :> 1056801646) @@ (1057300151 :> 1056859920)
    @@ (1057384035 :> 1056984956) @@ (1057384038 :> 1056984958)
    @@ (1057384039 :> 1056984959) @@ (1057467923 :> 1057057441)
    @@ (1057501476 :> 1057086374) @@ (1057618916 :> 1057187373)
    @@ (1057635695 :> 1057201769) @@ (1057736357 :> 1057287952)
    @@ (1057803467 :> 1057345235) @@ (1057853797 :> 1057388103)
    @@ (1057971237 :> 1057487822) @@ (1057971239 :> 1057487824)
    @@ (1058088678 :> 1057587106) @@ (1058139011 :> 1057629522)
    @@ (1058206118 :> 1057685947) @@ (1058264843 :> 1057735204)
    @@ (1058306783 :> 1057770314) @@ (1058323559 :> 1057784342)
    @@ (1058440999 :> 1057882285) @@ (1058474555 :> 1057910187)
    @@ (1058558439 :> 1057979773) @@ (1058642327 :> 1058049127)
    @@ (1058642330 :> 1058049129) @@ (1058675880 :> 1058076800)
    @@ (1058793320 :> 1058173361) @@ (1058810100 :> 1058187120)
    @@ (1058910761 :> 1058269453) @@ (1058977872 :> 1058324151)
    @@ (1059028201 :> 1058365069) @@ (1059145641 :> 1058460205)
    @@ (1059145644 :> 1058460207) @@ (1059145646 :> 1058460209)
    @@ (1059263082 :> 1058554857) @@ (1059313416 :> 1058595275)
    @@ (1059380522 :> 1058649020) @@ (1059481188 :> 1058729341)
    @@ (1059497963 :> 1058742690) @@ (1059615403 :> 1058835862)
    @@ (1059648960 :> 1058862392) @@ (1059732843 :> 1058928530)
    @@ (1059816732 :> 1058994414) @@ (1059850284 :> 1059020692)
    @@ (1059900621 :> 1059060037) @@ (1059967724 :> 1059112341)
    @@ (1059984504 :> 1059125394) @@ (1060026450 :> 1059157977)
    @@ (1060085165 :> 1059203475) @@ (1060152276 :> 1059255319)
    @@ (1060202605 :> 1059294087) @@ (1060320045 :> 1059384175)
    @@ (1060320048 :> 1059384177) @@ (1060437486 :> 1059473733)
    @@ (1060487820 :> 1059511953) @@ (1060554926 :> 1059562756)
    @@ (1060655592 :> 1059638636) @@ (1060672367 :> 1059651242)
    @@ (1060789807 :> 1059739185) @@ (1060823364 :> 1059764213)
    @@ (1060907247 :> 1059826581) @@ (1060907254 :> 1059826586)
    @@ (1060991136 :> 1059888671) @@ (1061024688 :> 1059913426)
    @@ (1061142128 :> 1059999714) @@ (1061158908 :> 1060011998)
    @@ (1061158912 :> 1060012001) @@ (1061259569 :> 1060085444)
    @@ (1061326680 :> 1060134181) @@ (1061377009 :> 1060170609)
    @@ (1061494449 :> 1060255206) @@ (1061494452 :> 1060255208)
    @@ (1061611890 :> 1060339231) @@ (1061662224 :> 1060375068)
    @@ (1061729330 :> 1060422680) @@ (1061788057 :> 1060464191)
    @@ (1061829996 :> 1060493747) @@ (1061846771 :> 1060505548)
    @@ (1061964211 :> 1060587831) @@ (1061997768 :> 1060611235)
    @@ (1062081651 :> 1060669526) @@ (1062165540 :> 1060727519)
    @@ (1062199092 :> 1060750629) @@ (1062316532 :> 1060831134)
    @@ (1062333312 :> 1060842588) @@ (1062417204 :> 1060899667)
    @@ (1062433973 :> 1060911040) @@ (1062501084 :> 1060956430)
    @@ (1062551413 :> 1060990341) @@ (1062668853 :> 1061069033)
    @@ (1062668856 :> 1061069035) @@ (1062668862 :> 1061069039)
    @@ (1062836628 :> 1061180390) @@ (1063004400 :> 1061290485)
    @@ (1063172172 :> 1061399308) @@ (1063339944 :> 1061506849)
    @@ (1063507716 :> 1061613097) @@ (1063549666 :> 1061639460)
    @@ (1063675488 :> 1061718041) @@ (1063675495 :> 1061718045)
    @@ (1063843260 :> 1061821671) @@ (1064011032 :> 1061923976)
    @@ (1064178804 :> 1062024947) @@ (1064346576 :> 1062124573)
    @@ (1064430469 :> 1062173882) @@ (1064514348 :> 1062222843)
    @@ (1064682120 :> 1062319750) @@ (1064849892 :> 1062415282)
    @@ (1064933786 :> 1062462534) @@ (1065017664 :> 1062509429)
    @@ (1065185436 :> 1062602184) @@ (1065311274 :> 1062670835)
    @@ (1065353208 :> 1062693536) @@ (1065437098 :> 1062783476)
    @@ (1065520984 :> 1062871996) @@ (1065604870 :> 1062959086)
    @@ (1065688756 :> 1063044738) @@ (1065772642 :> 1063128942)
    @@ (1065772646 :> 1063128946) @@ (1065772647 :> 1063128947)
    @@ (1065856528 :> 1063211692) @@ (1065940414 :> 1063292978)
    @@ (1066024300 :> 1063372792) @@ (1066108186 :> 1063451127)
    @@ (1066192072 :> 1063527974) @@ (1066213048 :> 1063546957)
    @@ (1066275958 :> 1063603326) @@ (1066359844 :> 1063677175)
    @@ (1066401792 :> 1063713538) @@ (1066443730 :> 1063749514)
    @@ (1066527616 :> 1063820336) @@ (1066611502 :> 1063889634)
    @@ (1066653451 :> 1063923713) @@ (1066695388 :> 1063957400)
    @@ (1066779274 :> 1064023627) @@ (1066863160 :> 1064088311)
    @@ (1066947046 :> 1064151443) @@ (1067030932 :> 1064213017)
    @@ (1067030938 :> 1064213021) @@ (1067093852 :> 1064258176)
    @@ (1067534254 :> 1064549425) @@ (1067660084 :> 1064624587)
    @@ (1067974657 :> 1064796658) @@ (1068289229 :> 1064945922)
    @@ (1068415058 :> 1064999193) @@ (1068855460 :> 1065156471)
    @@ (1068918375 :> 1065175219) @@ (1069295862 :> 1065268061)
    @@ (1069547520 :> 1065311189) @@ (1069736265 :> 1065333653)
    @@ (1070176665 :> 1065353068) @@ (1070176666 :> 1065353068)
    @@ (1070617068 :> 1065326251) @@ (1070805812 :> 1065300620)
    @@ (1071057470 :> 1065253277) @@ (1071434957 :> 1065154140)
    @@ (1072064103 :> 1064914452) @@ (1072693249 :> 1064582903)
    @@ (1073322394 :> 1064161357) @@ (1073846682 :> 1063652185)
    @@ (1074161255 :> 1063058249) @@ (1074475828 :> 1062382888)
    @@ (1074790400 :> 1061629902) @@ (1075104973 :> 1060803520)
    @@ (1075419546 :> 1059908391)

cosf(a) == LibmCos[a]
sinf(a) == LibmSin[a]

(* tanf((55.0f * 0.5f) * (3.14159265358979323846f / 180.0f)) = 0.52056706f *)
(* (bit pattern 0x3F0543E2)                                                *)
FOV_SCALE == 1057309666

CENTER ==
    Vec(F32Mul(F32FromInt(GRID_X), Dec(5, 1)), F32FromInt(3),
        F32Mul(F32FromInt(GRID_Z), Dec(5, 1)))
RADIUS == F32FromInt(18)

(* Lines 317-328: the camera position at camera time tm. *)
CameraPos(tm, freeze) ==
    LET orbit_t == F32Mul(tm, Dec(6, 1))
    IN  IF freeze
        THEN Vec(F32Add(CENTER.x, RADIUS), Dec(85, 1), CENTER.z)
        ELSE Vec(F32Add(CENTER.x, F32Mul(cosf(orbit_t), RADIUS)),
                 F32Add(Dec(85, 1),
                        F32Mul(sinf(F32Mul(orbit_t, Dec(7, 1))), Dec(15, 1))),
                 F32Add(CENTER.z, F32Mul(sinf(orbit_t), RADIUS)))

(* Line 333: up, and the three vectors together. *)
BasisUp(forward, right) ==
    [forward |-> forward, right |-> right,
     up |-> Vector3Normalize(Vector3CrossProduct(right, forward))]

(* Lines 332-333: right and up from forward. *)
BasisRight(forward) ==
    BasisUp(forward,
            Vector3Normalize(Vector3CrossProduct(forward, Vec(0, F32_ONE, 0))))

(* Lines 331-333: the orthonormal camera basis. *)
CameraBasis(cam) == BasisRight(Vector3Normalize(Vector3Subtract(CENTER, cam)))

(* Lines 336-345: the pinhole projection constants. *)
Projection ==
    LET aspect    == F32Div(F32FromInt(IMG_W), F32FromInt(IMG_H))
        inv_img_w == F32Div(F32_ONE, F32FromInt(IMG_W))
        inv_img_h == F32Div(F32_ONE, F32FromInt(IMG_H))
    IN  [u_step  |-> F32Mul(F32Mul(F32Mul(F32FromInt(2), aspect), FOV_SCALE),
                            inv_img_w),
         v_step  |-> F32Mul(F32Mul(F32FromInt(-2), FOV_SCALE), inv_img_h),
         u_start |-> F32Mul(F32Mul(F32Add(F32FromInt(-1), inv_img_w), aspect),
                            FOV_SCALE),
         v_start |-> F32Mul(F32Sub(F32_ONE, inv_img_h), FOV_SCALE)]

(* Lines 350-352: the un-normalised ray of the first pixel of row y. *)
RowStart(basis, y) ==
    LET v == F32Add(Projection.v_start, F32Mul(F32FromInt(y), Projection.v_step))
        row_base == Vector3Add(basis.forward, Vector3Scale(basis.up, v))
    IN  Vector3Add(row_base, Vector3Scale(basis.right, Projection.u_start))

ZeroStats ==
    [rays |-> 0, rays_entered_grid |-> 0, hits |-> 0, total_steps |-> 0,
     max_steps |-> 0, avg_steps_per_ray |-> 0, hit_ratio |-> 0,
     rays_per_sec |-> 0, steps_per_sec |-> 0]

(* Faulty variant: hits counts the rays that entered the grid. *)
Accumulate_entered_as_hit(st, tr) ==
    [st EXCEPT
        !.rays_entered_grid = IF tr.entered_grid THEN @ + 1 ELSE @,
        !.hits = IF tr.entered_grid THEN @ + 1 ELSE @,
        !.total_steps = @ + tr.steps,
        !.max_steps = IF tr.steps > @ THEN tr.steps ELSE @]

(* Lines 359-362: fold one TraceResult into the running totals. *)
Accumulate(st, tr) ==
    [st EXCEPT
        !.rays_entered_grid = IF tr.entered_grid THEN @ + 1 ELSE @,
        !.hits = IF tr.hit THEN @ + 1 ELSE @,
        !.total_steps = @ + tr.steps,
        !.max_steps = IF tr.steps > @ THEN tr.steps ELSE @]

(* Lines 364-373: the 8-bit colour stored for a TraceResult. *)
PixelColor(tr, conv) ==
    <<clamp_i32(F32Trunc(F32Mul(tr.col.x, F32FromInt(255)), conv), 0, 255),
      clamp_i32(F32Trunc(F32Mul(tr.col.y, F32FromInt(255)), conv), 0, 255),
      clamp_i32(F32Trunc(F32Mul(tr.col.z, F32FromInt(255)), conv), 0, 255),
      255>>

(* Lines 379-382: the per-ray averages. *)
Averages(st) ==
    IF st.rays > 0
    THEN [st EXCEPT
            !.avg_steps_per_ray =
                F32Div(F32FromInt(st.total_steps), F32FromInt(st.rays)),
            !.hit_ratio = F32Div(F32FromInt(st.hits), F32FromInt(st.rays))]
    ELSE st

(* Faulty variant: the guard is dt > 0 instead of dt > 1e-6f. *)
Throughput_positive_dt(st, dt) ==
    IF F32Greater(dt, 0)
    THEN [st EXCEPT
            !.rays_per_sec = F32Div(F32FromInt(st.rays), dt),
            !.steps_per_sec = F32Div(F32FromInt(st.total_steps), dt)]
    ELSE st

(* Lines 383-386: the throughput fields. *)
Throughput(st, dt) ==
    IF F32Greater(dt, EPSILON)
    THEN [st EXCEPT
            !.rays_per_sec = F32Div(F32FromInt(st.rays), dt),
            !.steps_per_sec = F32Div(F32FromInt(st.total_steps), dt)]
    ELSE st

(* Faulty variant: the stats are not cleared; the call starts from the    *)
(* stats of the previous frame.                                          *)
FreshStats_stale == [frame_stats EXCEPT !.rays = IMG_W * IMG_H]

(* Lines 312-314: the stats a call starts from. *)
FreshStats == [ZeroStats EXCEPT !.rays = IMG_W * IMG_H]

(* Lines 359-375: the loop state after the body of the inner loop for a   *)
(* pixel whose TraceResult is tr; pixel_index k is element k + 1 of the    *)
(* buffer.                                                                 *)
PixelStore(s, tr, ray_step_x, conv) ==
    [y      |-> s.y,
     x      |-> s.x + 1,
     ray    |-> Vector3Add(s.ray, ray_step_x),
     stats  |-> Accumulate(s.stats, tr),
     pixels |-> Append(s.pixels, PixelColor(tr, conv))]

(* Lines 349-354: the loop state on entering row y. *)
RowEnter(basis, y, s) ==
    [y      |-> y,
     x      |-> 0,
     ray    |-> IF y < IMG_H THEN RowStart(basis, y) ELSE s.ray,
     stats  |-> s.stats,
     pixels |-> s.pixels]

(* Lines 349-377: the two loops from pixel (s.x, s.y) on.  s.ray is the    *)
(* un-normalised ray of that pixel, s.stats and s.pixels the totals and    *)
(* the pixels written so far.                                              *)
RECURSIVE PixelLoop(_, _, _, _, _, _)
PixelLoop(vx, cam, basis, ray_step_x, s, conv) ==
    IF s.y >= IMG_H THEN [stats |-> s.stats, pixels |-> s.pixels]
    ELSE IF s.x >= IMG_W
    THEN PixelLoop(vx, cam, basis, ray_step_x, RowEnter(basis, s.y + 1, s), conv)
    ELSE PixelLoop(vx, cam, basis, ray_step_x,
                   PixelStore(s,
                              trace_ray_amanatides_woo(
                                  vx, cam, Vector3Normalize(s.ray), conv),
                              ray_step_x, conv),
                   conv)

(* Lines 346-377 with the camera basis. *)
RenderFromBasis(vx, cam, basis, conv) ==
    PixelLoop(vx, cam, basis, Vector3Scale(basis.right, Projection.u_step),
              RowEnter(basis, 0, [ray |-> Vec(0, 0, 0), stats |-> FreshStats,
                                  pixels |-> <<>>]),
              conv)

(* Lines 331-377 with the camera position. *)
RenderFromCamera(vx, cam, conv) ==
    RenderFromBasis(vx, cam, CameraBasis(cam), conv)

(* Lines 312-377: the camera set-up and the pixel loops; the totals and    *)
(* the pixel buffer on leaving the loops.  Nothing here reads dt.          *)
RenderPixels(vx, tm, freeze, conv) ==
    RenderFromCamera(vx, CameraPos(tm, freeze), conv)

(* Lines 379-388: the averages, the throughput and the return. *)
RenderReturn(traced, dt) ==
    [stats  |-> Throughput(Averages(traced.stats), dt),
     pixels |-> traced.pixels]

(* render_voxel_image(dt) with the global state it reads: the FrameStats   *)
(* returned and the pixel buffer written.  conv: what the build's          *)
(* float-to-int conversion returns where it is undefined.                  *)
render_voxel_image(vx, tm, freeze, dt, conv) ==
    RenderReturn(RenderPixels(vx, tm, freeze, conv), dt)

-----------------------------------------------------------------------------
(* Model bounds and the inputs drawn from them *)

MaxBack == 3        \* ray origins lie 0..MaxBack strides behind their aim point
BackStride == 6     \* length of one stride, in direction vectors
MaxSets == 2        \* set_voxel calls per run of SpecGrid
MaxCalls == 2       \* render_voxel_image calls per run of SpecRender

(* Rays are drawn on the half-unit lattice: a lattice vector holds each    *)
(* coordinate in halves, and FromLattice gives the float vector.           *)
FromLattice(p) == Vec(Dyadic(p.x, 1), Dyadic(p.y, 1), Dyadic(p.z, 1))

DirComps == {-2, -1, 0, 1, 2}
Dirs == {Vec(x, y, z) : x \in DirComps, y \in DirComps, z \in DirComps}

TargetCells == {<<5, 0, 5>>, <<23, 15, 23>>}
Center(c) == Vec(2 * c[1] + 1, 2 * c[2] + 1, 2 * c[3] + 1)
Corner(c) == Vec(2 * c[1], 2 * c[2], 2 * c[3])

(* Points rays are aimed at or away from: the centres of the target cells, *)
(* a corner of the box and a lattice point inside it.                      *)
AimPoints ==
    {Center(c) : c \in TargetCells} \cup {Corner(<<0, 0, 0>>), Corner(<<12, 8, 12>>)}

BackFrom(a, d, k) ==
    Vec(a.x - k * BackStride * d.x, a.y - k * BackStride * d.y,
        a.z - k * BackStride * d.z)
Neg(d) == Vec(-d.x, -d.y, -d.z)

(* origin k strides behind an aim point along d; direction d or -d *)
LatticeRays ==
    {<<FromLattice(BackFrom(a, d, k)), FromLattice(IF fwd THEN d ELSE Neg(d))>> :
        a \in AimPoints, d \in Dirs, k \in 0..MaxBack, fwd \in BOOLEAN}

(* Rays along +x, -x, +y and -y from -1.0101835e20f (far) with the         *)
(* direction component 3.1840966f (dir).  A ray from that far has          *)
(* t_enter = t_exit (the box is thinner than one unit in the last place    *)
(* of t) and its start point origin + direction * t is rounded to a        *)
(* coordinate of magnitude 8.8e12, outside the range of int.               *)
FarRays ==
    LET far == -1622097193
        dir == 1078708285
    IN  {<<Vec(far, F32FromInt(8), F32FromInt(12)), Vec(dir, 0, 0)>>,
         <<Vec(-far, F32FromInt(8), F32FromInt(12)), Vec(-dir, 0, 0)>>,
         <<Vec(F32FromInt(12), far, F32FromInt(12)), Vec(0, dir, 0)>>,
         <<Vec(F32FromInt(12), -far, F32FromInt(12)), Vec(0, -dir, 0)>>}

(* Rays along +x and -x from the same distance, through the centre of     *)
(* the target cell (5, 0, 5).                                              *)
FarAimedRays ==
    LET far == -1622097193
        dir == 1078708285
    IN  {<<Vec(far, Dyadic(1, 1), Dyadic(11, 1)), Vec(dir, 0, 0)>>,
         <<Vec(-far, Dyadic(1, 1), Dyadic(11, 1)), Vec(-dir, 0, 0)>>}

(* Rays with a direction component of 2^-21, which is not 0 and is below   *)
(* the 1e-6f of axis_slab:                                                 *)
(*   from (-3.5, 0.5, 5.5) along (2^-21, 0, 0), aimed at the centre of     *)
(*     cell (5, 0, 5);                                                     *)
(*   from (-2097146.5, -0.5, 5.5) along (1, 2^-21, 0), aimed at the same   *)
(*     centre from below the box;                                          *)
(*   from (-1048570.5, 0, 5.5) along (1, 2^-21, 0), aimed at the same      *)
(*     centre from within the box's extent in y;                           *)
(*   from (-2000000, 15.5, 5) along (1, 2^-21, 0), which passes above the  *)
(*     box (y is about 16.45 where x reaches 0);                           *)
(*   from (-3.5, 0.5, 5.5) along (2^-21, 1, 0), which passes beside it.    *)
TinyRays ==
    {<<Vec(Dyadic(-7, 1), Dyadic(1, 1), Dyadic(11, 1)),
       Vec(Dyadic(1, 21), 0, 0)>>,
     <<Vec(Dyadic(-4194293, 1), Dyadic(-1, 1), Dyadic(11, 1)),
       Vec(F32_ONE, Dyadic(1, 21), 0)>>,
     <<Vec(Dyadic(-2097141, 1), 0, Dyadic(11, 1)),
       Vec(F32_ONE, Dyadic(1, 21), 0)>>,
     <<Vec(F32FromInt(-2000000), Dyadic(31, 1), F32FromInt(5)),
       Vec(F32_ONE, Dyadic(1, 21), 0)>>,
     <<Vec(Dyadic(-7, 1), Dyadic(1, 1), Dyadic(11, 1)),
       Vec(Dyadic(1, 21), F32_ONE, 0)>>}

Rays == LatticeRays \cup FarRays \cup FarAimedRays \cup TinyRays

SingleVoxel(c) == set_voxel(EmptyGrid, c[1], c[2], c[3], 1)

TraceGrids == {EmptyGrid, build_scene} \cup {SingleVoxel(c) : c \in TargetCells}

NoPixels == [i \in 1..(IMG_W * IMG_H) |-> <<0, 0, 0, 0>>]

None == [none |-> TRUE]

(* Coordinates and values handed to set_voxel: below, inside, on the last  *)
(* cell of and just past each axis. *)
SetXs == {-1, 5, GRID_X - 1, GRID_X}
SetYs == {-1, 0, GRID_Y - 1, GRID_Y}
SetZs == {-1, 5, GRID_Z - 1, GRID_Z}
SetValues == {0, 1, 255}

(* The dt handed to render_voxel_image by a direct call: 0, the 1e-6f      *)
(* epsilon itself, the smallest dt the main loop passes (1e-5f) and the    *)
(* largest (0.25f).                                                        *)
RenderDts == {0, EPSILON, Dec(1, 5), Dyadic(1, 2)}

(* What GetFrameTime() returns in a frame: 0 s (below the clamp of line    *)
(* 485), 1/60 s (inside it, the frame time at the target rate of line 471) *)
(* and 0.5 s (above it).                                                   *)
FrameTimes == {0, F32Div(F32_ONE, F32FromInt(60)), Dyadic(1, 1)}

(* What the mouse does in a frame: nothing, a press on the freeze button   *)
(* or a press on the quit button (the buttons do not overlap).             *)
UiInputs == {"none", "freeze", "quit"}

RenderGrids == {EmptyGrid, build_scene}

-----------------------------------------------------------------------------
(* Spec: one call of trace_ray_amanatides_woo, one loop iteration a step *)

Init ==
    /\ voxels \in TraceGrids
    /\ time_s = 0
    /\ freeze_camera = FALSE
    /\ request_quit = FALSE
    /\ frame_ms = 0
    /\ fps_smooth = 0
    /\ pixels = NoPixels
    /\ frame_stats = ZeroStats
    /\ rcall = None
    /\ rloop = None
    /\ ncalls = 0
    /\ last_call = None
    /\ prev_call = None
    /\ last_set = None
    /\ nsets = 0
    /\ \E r \in Rays : ro = r[1] /\ rd = r[2]
    /\ pc = "call"
    /\ dda = None
    /\ clip = None
    /\ result = None
    /\ visited = <<>>
    /\ stepped = None

(* Lines 196-205: ray_aabb misses. *)
TraceMiss ==
    /\ pc = "call"
    /\ ~ray_aabb(ro, rd).hit
    /\ clip' = ray_aabb(ro, rd)
    /\ result' = NoEntryResult(rd)
    /\ pc' = "done"
    /\ UNCHANGED <<voxels, appVars, ro, rd, dda, visited, stepped>>

(* Lines 196-253: ray_aabb hits; set up the traversal. *)
TraceEnter ==
    /\ pc = "call"
    /\ ray_aabb(ro, rd).hit
    /\ clip' = ray_aabb(ro, rd)
    /\ \E conv \in Conversions : dda' = DdaInit(ro, rd, ray_aabb(ro, rd), conv)
    /\ pc' = "loop"
    /\ UNCHANGED <<voxels, appVars, ro, rd, result, visited, stepped>>

(* Lines 256-260 and 299-306: the loop ends without a hit. *)
LoopExit ==
    /\ pc = "loop"
    /\ dda.i >= MAX_ITER \/ LoopBreak(dda)
    /\ result' = MissResult(rd, dda.steps)
    /\ pc' = "done"
    /\ UNCHANGED <<voxels, appVars, ro, rd, dda, clip, visited, stepped>>

(* Lines 261-278: the cell read is occupied. *)
LoopHit ==
    /\ pc = "loop"
    /\ ~(dda.i >= MAX_ITER \/ LoopBreak(dda))
    /\ VoxelAt(voxels, ReadIndex(dda)) # 0
    /\ visited' = Append(visited, <<dda.cell_x, dda.cell_y, dda.cell_z>>)
    /\ dda' = [dda EXCEPT !.steps = dda.steps + 1]
    /\ result' = HitResult(dda', VoxelAt(voxels, ReadIndex(dda)))
    /\ pc' = "done"
    /\ UNCHANGED <<voxels, appVars, ro, rd, clip, stepped>>

(* Lines 261-265 and 280-296: the cell read is empty; advance one cell. *)
LoopAdvance ==
    /\ pc = "loop"
    /\ ~(dda.i >= MAX_ITER \/ LoopBreak(dda))
    /\ VoxelAt(voxels, ReadIndex(dda)) = 0
    /\ visited' = Append(visited, <<dda.cell_x, dda.cell_y, dda.cell_z>>)
    /\ dda' = Advance(dda)
    /\ stepped' = [axis |-> StepAxis(dda), tx |-> dda.t_max_x,
                   ty |-> dda.t_max_y, tz |-> dda.t_max_z]
    /\ UNCHANGED <<voxels, appVars, ro, rd, pc, clip, result>>

Next == TraceMiss \/ TraceEnter \/ LoopExit \/ LoopHit \/ LoopAdvance

Spec == Init /\ [][Next]_vars

(* The step-wise loop returns what the function returns. *)
StepwiseAgrees ==
    pc = "done" =>
        \E conv \in Conversions :
            result = trace_ray_amanatides_woo(voxels, ro, rd, conv)

-----------------------------------------------------------------------------
(* Properties of ray_aabb and trace_ray_amanatides_woo (checked under Spec) *)

(* The float point p lies in the closed box. *)
InBox(p) ==
    /\ 0 <= p.x /\ p.x <= F32FromInt(GRID_X)
    /\ 0 <= p.y /\ p.y <= F32FromInt(GRID_Y)
    /\ 0 <= p.z /\ p.z <= F32FromInt(GRID_Z)

(* The geometric preconditions of the properties are decided exactly, in  *)
(* integers.  The origins of the lattice rays and of the rays of TinyRays  *)
(* have coordinates that are multiples of 1/2; Lattice gives them in       *)
(* halves.                                                                 *)
Halves(a) == F32Floor(F32Add(a, a), "indefinite")
Lattice(v) == Vec(Halves(v.x), Halves(v.y), Halves(v.z))

(* The ray traced is one of the lattice rays. *)
OnLattice == <<ro, rd>> \in LatticeRays

(* The ray traced is one whose geometry is decided in integers. *)
ExactRay == <<ro, rd>> \in LatticeRays \cup TinyRays

(* The direction component c is not 0 and axis_slab takes it for 0. *)
Tiny(c) == c # 0 /\ F32Less(fabsf(c), EPSILON)
HasTiny(d) == Tiny(d.x) \/ Tiny(d.y) \/ Tiny(d.z)

(* An integer vector along the direction d: d in halves, or d * 2^21 when  *)
(* d has a component of 2^-21 (the length of a direction does not matter   *)
(* to what its half-line meets).                                           *)
ScaleUp(c) == F32Floor(F32Mul(c, F32FromInt(Pow2(21))), "indefinite")
DirInts(d) ==
    IF HasTiny(d) THEN Vec(ScaleUp(d.x), ScaleUp(d.y), ScaleUp(d.z))
    ELSE Lattice(d)

(* DirInts(d) with the components that axis_slab takes for 0 set to 0. *)
FlushedInts(d) ==
    Vec(IF Tiny(d.x) THEN 0 ELSE DirInts(d).x,
        IF Tiny(d.y) THEN 0 ELSE DirInts(d).y,
        IF Tiny(d.z) THEN 0 ELSE DirInts(d).z)

(* One axis of the box for the half-line o + t*d (oc in halves, dc an      *)
(* integer, the box from 0 to mx): whether the half-line is parallel to    *)
(* the slab and then whether it lies inside it; otherwise the t at which   *)
(* it enters the slab is lo / den and the t at which it leaves is          *)
(* hi / den.                                                               *)
AxisSpan(oc, dc, mx) ==
    [par    |-> dc = 0,
     inside |-> 0 <= oc /\ oc <= 2 * mx,
     lo     |-> IF dc > 0 THEN 0 - oc ELSE oc - 2 * mx,
     hi     |-> IF dc > 0 THEN 2 * mx - oc ELSE oc,
     den    |-> Abs(dc)]

(* The forward half-line o + t*d, t >= 0, meets the closed box (o in       *)
(* halves, d an integer vector): it lies inside every slab it is parallel  *)
(* to, leaves no slab before t = 0, and enters no slab after it has left   *)
(* another (lo_i / den_i <= hi_j / den_j, compared by cross-               *)
(* multiplication).                                                        *)
MeetsBox(o, d) ==
    LET ax == <<AxisSpan(o.x, d.x, GRID_X), AxisSpan(o.y, d.y, GRID_Y),
                AxisSpan(o.z, d.z, GRID_Z)>>
    IN  /\ \A i \in 1..3 : IF ax[i].par THEN ax[i].inside ELSE ax[i].hi >= 0
        /\ \A i \in 1..3 : \A j \in (1..3) \ {i} :
               (~ax[i].par /\ ~ax[j].par)
                   => ax[i].lo * ax[j].den <= ax[j].hi * ax[i].den

(* d is a positive multiple of c - o (integer vectors): the two are        *)
(* parallel and a non-zero component of d has the sign of that of c - o.   *)
AimedAt(o, d, c) ==
    LET vx == c.x - o.x
        vy == c.y - o.y
        vz == c.z - o.z
    IN  /\ vy * d.z - vz * d.y = 0
        /\ vz * d.x - vx * d.z = 0
        /\ vx * d.y - vy * d.x = 0
        /\ \/ (d.x > 0 /\ vx > 0) \/ (d.x < 0 /\ vx < 0)
           \/ (d.y > 0 /\ vy > 0) \/ (d.y < 0 /\ vy < 0)
           \/ (d.z > 0 /\ vz > 0) \/ (d.z < 0 /\ vz < 0)

(* The ray o, d runs along the x axis towards the float point c (decided   *)
(* on the floats themselves, whatever their size).                         *)
AlongX(o, d, c) ==
    /\ d.y = 0 /\ d.z = 0 /\ o.y = c.y /\ o.z = c.z
    /\ (d.x > 0 /\ o.x < c.x) \/ (d.x < 0 /\ o.x > c.x)

(* The ray traced is aimed at the centre of cell c. *)
Aimed(c) ==
    \/ AlongX(ro, rd, FromLattice(Center(c)))
    \/ ExactRay /\ AimedAt(Lattice(ro), DirInts(rd), Center(c))

(* On some axis the direction component is taken for 0 by axis_slab and    *)
(* the origin is outside the grid's extent.                                *)
OutsideOnTinyAxis(o, d) ==
    \/ Tiny(d.x) /\ (F32Less(o.x, 0) \/ F32Greater(o.x, F32FromInt(GRID_X)))
    \/ Tiny(d.y) /\ (F32Less(o.y, 0) \/ F32Greater(o.y, F32FromInt(GRID_Y)))
    \/ Tiny(d.z) /\ (F32Less(o.z, 0) \/ F32Greater(o.z, F32FromInt(GRID_Z)))

InRange(x, y, z) ==
    x \in 0..(GRID_X - 1) /\ y \in 0..(GRID_Y - 1) /\ z \in 0..(GRID_Z - 1)

VisitedInside ==
    \A k \in 1..Len(visited) :
        /\ InRange(visited[k][1], visited[k][2], visited[k][3])
        /\ visited[k][1] + visited[k][2] * GRID_X
               + visited[k][3] * GRID_X * GRID_Y \in 0..(GRID_SIZE - 1)

(* C1: every read of the voxel array by the DDA loop is at a cell inside   *)
(* the grid, so the linear index read is in [0, GRID_SIZE); once a step    *)
(* has moved the cell outside the grid the loop ends without reading it.   *)
C1_ReadsInsideGrid ==
    /\ VisitedInside
    /\ (pc = "done" /\ result.entered_grid
            /\ ~InRange(dda.cell_x, dda.cell_y, dda.cell_z))
       => (/\ ~result.hit
           /\ Len(visited) = dda.steps
           /\ visited[Len(visited)] # <<dda.cell_x, dda.cell_y, dda.cell_z>>)

(* A traversal that stepped out of the grid and returned. *)
C1_Witness ==
    /\ pc = "done"
    /\ result.entered_grid
    /\ ~InRange(dda.cell_x, dda.cell_y, dda.cell_z)
    /\ Len(visited) >= 2

(* C2: when ray_aabb reports an intersection the returned step count is    *)
(* at least 1 and at most 256, whatever ended the traversal.               *)
C2_StepsInRange ==
    (pc = "done" /\ clip.hit) => (result.steps >= 1 /\ result.steps <= MAX_ITER)

(* A ray that enters through a far face of the box (the start point is on  *)
(* the boundary and is clamped into the last cell) and returns.            *)
C2_Witness ==
    /\ pc = "done"
    /\ clip.hit
    /\ ~InBox(ro)
    /\ visited # <<>>
    /\ visited[1][1] = GRID_X - 1
    /\ result.steps >= 1

OnlyVoxel(c) == DOMAIN voxels = {c[1] + c[2] * GRID_X + c[3] * GRID_X * GRID_Y}

(* The trace hit cell c: the last cell read is c, every cell read before  *)
(* it is empty, and steps = empty cells read + 1.                          *)
HitsAt(c) ==
    /\ result.hit
    /\ visited # <<>>
    /\ visited[Len(visited)] = c
    /\ \A k \in 1..(Len(visited) - 1) :
           visited[k][1] + visited[k][2] * GRID_X
               + visited[k][3] * GRID_X * GRID_Y \notin DOMAIN voxels
    /\ result.steps = (Len(visited) - 1) + 1

(* ray_aabb reported no intersection and the trace returned without        *)
(* entering the grid.                                                      *)
NoEntry ==
    /\ ~clip.hit
    /\ ~result.hit /\ ~result.entered_grid /\ result.steps = 0

(* C3 as stated: with exactly one occupied voxel and a ray from outside    *)
(* the box aimed at that voxel's centre, the trace hits, the hit is at     *)
(* that voxel, every cell read before it is empty, and steps = empty cells *)
(* read + 1.                                                               *)
C3_Original ==
    \A c \in TargetCells :
        (pc = "done" /\ OnlyVoxel(c) /\ ~InBox(ro) /\ Aimed(c)) => HitsAt(c)

(* C3 amended: the same holds for the aimed rays whose direction           *)
(* components are each 0 or of magnitude at least 1e-6 and whose entry     *)
(* point and crossings are computed exactly (the lattice rays); an aimed   *)
(* ray with a non-zero direction component of magnitude below 1e-6 and an  *)
(* origin outside the grid's extent on that axis is rejected by ray_aabb   *)
(* and returns hit = false, entered_grid = false, steps = 0.               *)
C3_AimedRayHits ==
    \A c \in TargetCells :
        /\ (pc = "done" /\ OnlyVoxel(c) /\ ~InBox(ro) /\ Aimed(c)
                /\ OnLattice /\ ~HasTiny(rd))
           => HitsAt(c)
        /\ (pc = "done" /\ OnlyVoxel(c) /\ ~InBox(ro) /\ Aimed(c)
                /\ OutsideOnTinyAxis(ro, rd))
           => NoEntry

(* An aimed diagonal ray that crossed several empty cells before its hit.  *)
C3_Witness ==
    \E c \in TargetCells :
        /\ pc = "done" /\ OnlyVoxel(c) /\ ~InBox(ro) /\ OnLattice
        /\ Aimed(c)
        /\ rd.x # 0 /\ rd.y # 0 /\ rd.z # 0
        /\ result.hit
        /\ result.steps >= 4

(* C4 as stated: for an origin inside the box ray_aabb reports an          *)
(* intersection and returns the entry distance 0.                          *)
C4_Original ==
    (pc # "call" /\ InBox(ro)) => (clip.hit /\ clip.t0 = 0)

(* C4 amended: for an origin inside the box ray_aabb reports an            *)
(* intersection and returns an entry distance that is at most 0 (the       *)
(* unclamped slab entry, at or behind the origin) and an exit distance     *)
(* that is at least 0; the clamp to 0 is made by the traversal, which      *)
(* starts at t = max(out_t0, 0) = 0.                                       *)
C4_EntryNotPositive ==
    (pc # "call" /\ InBox(ro))
    => /\ clip.hit
       /\ clip.t0 <= 0
       /\ clip.t1 >= 0
       /\ (pc = "loop" /\ dda.i = 0) => dda.t = 0

(* An origin strictly inside the box whose entry distance is negative.     *)
C4_Witness ==
    /\ pc = "loop" /\ dda.i = 0
    /\ InBox(ro)
    /\ clip.hit
    /\ clip.t0 < 0
    /\ dda.t = 0

TMaxOf(s, a) == IF a = "x" THEN s.tx ELSE IF a = "y" THEN s.ty ELSE s.tz
AxisRank(a) == IF a = "x" THEN 1 ELSE IF a = "y" THEN 2 ELSE 3
Axes == {"x", "y", "z"}

SteppedSmallest ==
    stepped # None => \A a \in Axes : TMaxOf(stepped, stepped.axis) <= TMaxOf(stepped, a)

(* C10 as stated: the axis stepped has the smallest tMax, and among axes   *)
(* tied for the smallest it is the earliest in the order x, y, z.          *)
C10_Original ==
    /\ SteppedSmallest
    /\ stepped # None =>
         \A a \in Axes :
            TMaxOf(stepped, a) = TMaxOf(stepped, stepped.axis)
                => AxisRank(stepped.axis) <= AxisRank(a)

(* C10 amended: the axis stepped has the smallest tMax, and among axes     *)
(* tied for the smallest it is the latest in the order x, y, z (z before   *)
(* y before x): x is stepped only when strictly smaller than both others.  *)
C10_TieGoesToLaterAxis ==
    /\ SteppedSmallest
    /\ stepped # None =>
         \A a \in Axes :
            TMaxOf(stepped, a) = TMaxOf(stepped, stepped.axis)
                => AxisRank(stepped.axis) >= AxisRank(a)

(* An advance made with the x and y crossings tied for the smallest.       *)
C10_Witness ==
    /\ stepped # None
    /\ stepped.tx = stepped.ty
    /\ stepped.tx < stepped.tz
    /\ stepped.axis = "y"

-----------------------------------------------------------------------------
(* SpecGrid: scene population through set_voxel and build_scene *)

TraceIdle ==
    /\ ro = None /\ rd = None /\ pc = "idle" /\ dda = None /\ clip = None
    /\ result = None /\ visited = <<>> /\ stepped = None

InitGrid ==
    /\ voxels = EmptyGrid
    /\ time_s = 0
    /\ freeze_camera = FALSE
    /\ request_quit = FALSE
    /\ frame_ms = 0
    /\ fps_smooth = 0
    /\ pixels = NoPixels
    /\ frame_stats = ZeroStats
    /\ rcall = None
    /\ rloop = None
    /\ ncalls = 0
    /\ last_call = None
    /\ prev_call = None
    /\ last_set = None
    /\ nsets = 0
    /\ TraceIdle

(* Lines 106-110: one set_voxel call. *)
SetVoxel ==
    \E x \in SetXs, y \in SetYs, z \in SetZs, value \in SetValues :
        /\ pc = "idle"
        /\ nsets < MaxSets
        /\ voxels' = set_voxel(voxels, x, y, z, value)
        /\ last_set' = [x |-> x, y |-> y, z |-> z, value |-> value,
                        before |-> voxels]
        /\ nsets' = nsets + 1
        /\ UNCHANGED <<time_s, freeze_camera, request_quit, frame_ms,
                       fps_smooth, pixels, frame_stats, rcall, rloop, ncalls,
                       last_call, prev_call, traceVars>>

(* Lines 117-142: build_scene. *)
BuildScene ==
    /\ pc = "idle"
    /\ voxels' = build_scene
    /\ last_set' = None
    /\ UNCHANGED <<time_s, freeze_camera, request_quit, frame_ms, fps_smooth,
                   pixels, frame_stats, rcall, rloop, ncalls, last_call,
                   prev_call, nsets, traceVars>>

NextGrid == SetVoxel \/ BuildScene

SpecGrid == InitGrid /\ [][NextGrid]_vars

-----------------------------------------------------------------------------
(* The frame loop of main *)

(* Line 485: the frame time clamped to [1e-5f, 0.25f]. *)
FrameDt(ft) == clamp_f32(ft, Dec(1, 5), Dyadic(1, 2))

(* Lines 488-490: the camera timer after the update. *)
CameraTime(tm, freeze, dt) == IF freeze THEN tm ELSE F32Add(tm, dt)

(* Line 493 *)
FrameMs(dt) == F32Mul(dt, F32FromInt(1000))

(* Line 494 *)
Fps(dt) == IF F32Greater(dt, EPSILON) THEN F32Div(F32_ONE, dt) ELSE 0

(* Lines 495-499: the smoothed fps readout. *)
FpsSmooth(smooth, fps) ==
    IF F32LessEq(smooth, 0) THEN fps
    ELSE F32Add(F32Mul(smooth, Dec(9, 1)), F32Mul(fps, Dec(1, 1)))

(* Lines 461-463 of draw_overlay: the freeze button toggles the flag. *)
FreezeAfter(freeze, ui) == IF ui = "freeze" THEN ~freeze ELSE freeze

(* Lines 464-466 of draw_overlay: the quit button. *)
QuitAfter(quit, ui) == quit \/ ui = "quit"

-----------------------------------------------------------------------------
(* render_voxel_image step by step: its locals between two pixels *)

(* Lines 346-354 with the camera basis: the locals on entering row 0. *)
LocalsFromBasis(cam, basis) ==
    [cam |-> cam, basis |-> basis,
     ray_step_x |-> Vector3Scale(basis.right, Projection.u_step),
     y |-> 0, x |-> 0, ray |-> RowStart(basis, 0), pixel_index |-> 0,
     stats |-> FreshStats]

(* Lines 312-354: the locals when the loops are entered. *)
RenderEntry(tm, freeze) ==
    LocalsFromBasis(CameraPos(tm, freeze), CameraBasis(CameraPos(tm, freeze)))

(* Lines 349-354: the locals on entering row y (none is touched when the   *)
(* outer loop ends).                                                       *)
RowLocals(l, y) ==
    IF y >= IMG_H THEN [l EXCEPT !.y = y]
    ELSE [l EXCEPT !.y = y, !.x = 0, !.ray = RowStart(l.basis, y),
                   !.pixel_index = y * IMG_W]

(* Lines 359-375 and the loop increments: the locals after the body of    *)
(* the inner loop for a pixel whose TraceResult is tr.                     *)
PixelLocals(l, tr) ==
    IF l.x + 1 >= IMG_W
    THEN RowLocals([l EXCEPT !.stats = Accumulate(l.stats, tr),
                             !.pixel_index = l.pixel_index + 1,
                             !.ray = Vector3Add(l.ray, l.ray_step_x),
                             !.x = l.x + 1],
                   l.y + 1)
    ELSE [l EXCEPT !.stats = Accumulate(l.stats, tr),
                   !.pixel_index = l.pixel_index + 1,
                   !.ray = Vector3Add(l.ray, l.ray_step_x),
                   !.x = l.x + 1]

(* Lines 355-357: the TraceResult of the pixel the loops are at. *)
PixelTrace(vx, l, conv) ==
    trace_ray_amanatides_woo(vx, l.cam, Vector3Normalize(l.ray), conv)

(* The call as the history keeps it once it has returned: its dt, the      *)
(* state it was entered with (camera time, freeze flag, grid, and the      *)
(* pixel buffer and frame stats left by whatever ran before), whether the  *)
(* camera time, the flag and the grid are still the same at the return,    *)
(* and the pixel buffer and stats it left.                                 *)
Returned(call, px, st, same) ==
    [dt |-> call.dt, time |-> call.time, freeze |-> call.freeze,
     voxels |-> call.voxels, in_frame |-> call.in_frame,
     entry_pixels |-> call.pixels, entry_stats |-> call.stats,
     kept |-> same, pixels |-> px, stats |-> st]

-----------------------------------------------------------------------------
(* SpecRender: the program from the start of main's loop, with a grid that *)
(* is empty or holds the scene.  render_voxel_image is entered by a pass   *)
(* of main's loop (FrameStart ... FrameEnd) or by a direct call            *)
(* (CallRender ... CallReturn) and runs one pixel a step (RenderPixel).    *)

InitRender ==
    /\ voxels \in RenderGrids
    /\ time_s = 0
    /\ freeze_camera = FALSE
    /\ request_quit = FALSE
    /\ frame_ms = 0
    /\ fps_smooth = 0
    /\ pixels = NoPixels
    /\ frame_stats = ZeroStats
    /\ rcall = None
    /\ rloop = None
    /\ ncalls = 0
    /\ last_call = None
    /\ prev_call = None
    /\ last_set = None
    /\ nsets = 0
    /\ TraceIdle

(* Lines 311-354: a direct call render_voxel_image(dt) is entered. *)
CallRender ==
    /\ pc = "idle"
    /\ rcall = None
    /\ ~request_quit
    /\ ncalls < MaxCalls
    /\ \E dt \in RenderDts :
           rcall' = [dt |-> dt, time |-> time_s, freeze |-> freeze_camera,
                     voxels |-> voxels, in_frame |-> FALSE,
                     pixels |-> pixels, stats |-> frame_stats]
    /\ rloop' = RenderEntry(time_s, freeze_camera)
    /\ ncalls' = ncalls + 1
    /\ UNCHANGED <<voxels, time_s, freeze_camera, request_quit, frame_ms,
                   fps_smooth, pixels, frame_stats, last_call, prev_call,
                   last_set, nsets, traceVars>>

(* Lines 484-502 and 311-354: a pass of main's loop begins.  ft is what    *)
(* GetFrameTime() returns; the timer is advanced and render_voxel_image is *)
(* entered at the new camera time.                                         *)
FrameStart ==
    /\ pc = "idle"
    /\ rcall = None
    /\ ~request_quit
    /\ ncalls < MaxCalls
    /\ \E ft \in FrameTimes :
           /\ time_s' = CameraTime(time_s, freeze_camera, FrameDt(ft))
           /\ frame_ms' = FrameMs(FrameDt(ft))
           /\ fps_smooth' = FpsSmooth(fps_smooth, Fps(FrameDt(ft)))
           /\ rcall' = [dt |-> FrameDt(ft), time |-> time_s',
                        freeze |-> freeze_camera, voxels |-> voxels,
                        in_frame |-> TRUE,
                        pixels |-> pixels, stats |-> frame_stats]
    /\ rloop' = RenderEntry(time_s', freeze_camera)
    /\ ncalls' = ncalls + 1
    /\ UNCHANGED <<voxels, freeze_camera, request_quit, pixels, frame_stats,
                   last_call, prev_call, last_set, nsets, traceVars>>

(* Lines 355-376: one pass of the inner loop; the pixel's colour is stored *)
(* at pixel_index (element pixel_index + 1 of the buffer).                 *)
RenderPixel ==
    /\ rcall # None
    /\ rloop.y < IMG_H
    /\ \E conv \in Conversions :
       \E tr \in {PixelTrace(voxels, rloop, conv)} :
           /\ pixels' = [pixels EXCEPT ![rloop.pixel_index + 1] =
                                            PixelColor(tr, conv)]
           /\ rloop' = PixelLocals(rloop, tr)
    /\ UNCHANGED <<voxels, time_s, freeze_camera, request_quit, frame_ms,
                   fps_smooth, frame_stats, rcall, ncalls, last_call,
                   prev_call, last_set, nsets, traceVars>>

(* Lines 379-388: the direct call returns and its caller stores the stats. *)
CallReturn ==
    /\ rcall # None
    /\ ~rcall.in_frame
    /\ rloop.y >= IMG_H
    /\ frame_stats' = Throughput(Averages(rloop.stats), rcall.dt)
    /\ prev_call' = last_call
    /\ last_call' = Returned(rcall, pixels, frame_stats',
                             /\ time_s = rcall.time
                             /\ freeze_camera = rcall.freeze
                             /\ voxels = rcall.voxels)
    /\ rcall' = None
    /\ rloop' = None
    /\ UNCHANGED <<voxels, time_s, freeze_camera, request_quit, frame_ms,
                   fps_smooth, pixels, ncalls, last_set, nsets, traceVars>>

(* Lines 379-388 and 502-520: the call made by main returns, main stores   *)
(* the stats and draw_overlay handles the buttons; ui is what the mouse    *)
(* does in this frame.                                                     *)
FrameEnd ==
    /\ rcall # None
    /\ rcall.in_frame
    /\ rloop.y >= IMG_H
    /\ frame_stats' = Throughput(Averages(rloop.stats), rcall.dt)
    /\ prev_call' = last_call
    /\ last_call' = Returned(rcall, pixels, frame_stats',
                             /\ time_s = rcall.time
                             /\ freeze_camera = rcall.freeze
                             /\ voxels = rcall.voxels)
    /\ \E ui \in UiInputs :
           /\ freeze_camera' = FreezeAfter(freeze_camera, ui)
           /\ request_quit' = QuitAfter(request_quit, ui)
    /\ rcall' = None
    /\ rloop' = None
    /\ UNCHANGED <<voxels, time_s, frame_ms, fps_smooth, pixels, ncalls,
                   last_set, nsets, traceVars>>

NextRender == CallRender \/ FrameStart \/ RenderPixel \/ CallReturn \/ FrameEnd

SpecRender == InitRender /\ [][NextRender]_vars

(* Once a call has returned the state holds what the function returns. *)
RenderAgrees ==
    (rcall = None /\ last_call # None) =>
        \E conv \in Conversions :
            [pixels |-> pixels, stats |-> frame_stats]
                = render_voxel_image(last_call.voxels, last_call.time,
                                     last_call.freeze, last_call.dt, conv)

-----------------------------------------------------------------------------
(* Properties of render_voxel_image (checked under SpecRender) *)

(* C6: over an all-empty grid the stats have hits = 0 and hit_ratio = 0,   *)
(* for every camera time, either value of the freeze flag and every dt.    *)
C6_EmptyGridNoHits ==
    (voxels = EmptyGrid /\ last_call # None)
    => /\ last_call.stats.hits = 0
       /\ last_call.stats.hit_ratio = 0
       /\ frame_stats.hits = 0
       /\ frame_stats.hit_ratio = 0

(* A frame over the empty grid, camera moved on its orbit, whose rays all  *)
(* entered the grid and walked it.                                         *)
C6_Witness ==
    /\ voxels = EmptyGrid
    /\ last_call # None
    /\ last_call.time > 0 /\ ~last_call.freeze
    /\ frame_stats.rays_entered_grid = IMG_W * IMG_H
    /\ frame_stats.total_steps > 0

(* C7: with an elapsed time not above the epsilon (0, or 1e-6f itself)     *)
(* rays_per_sec and steps_per_sec are 0 and nothing is divided by the      *)
(* elapsed time; above the epsilon they are the counts divided by it.      *)
C7_ThroughputGuarded ==
    last_call # None =>
        IF last_call.dt <= EPSILON
        THEN /\ last_call.stats.rays_per_sec = 0
             /\ last_call.stats.steps_per_sec = 0
        ELSE /\ last_call.stats.rays_per_sec
                    = F32Div(F32FromInt(last_call.stats.rays), last_call.dt)
             /\ last_call.stats.steps_per_sec
                    = F32Div(F32FromInt(last_call.stats.total_steps), last_call.dt)
             /\ last_call.stats.rays_per_sec > 0

(* A frame with elapsed time exactly at the epsilon that counted steps.    *)
C7_Witness ==
    /\ last_call # None
    /\ last_call.dt = EPSILON
    /\ last_call.stats.total_steps > 0
    /\ last_call.stats.steps_per_sec = 0

(* C8: from its entry to its return a call leaves the camera time, the    *)
(* freeze flag and the grid as they were, and a call made right after      *)
(* another one (nothing of main's loop in between) with the same elapsed   *)
(* time, the same freeze flag and the same grid leaves the same pixel      *)
(* buffer and the same stats, whatever buffer and stats it was entered     *)
(* with.                                                                   *)
C8_RenderRepeatable ==
    /\ rcall # None => /\ time_s = rcall.time
                       /\ freeze_camera = rcall.freeze
                       /\ voxels = rcall.voxels
    /\ last_call # None => last_call.kept
    /\ (/\ prev_call # None /\ last_call # None
        /\ ~last_call.in_frame
        /\ prev_call.dt = last_call.dt
        /\ prev_call.freeze = last_call.freeze
        /\ prev_call.voxels = last_call.voxels)
       => /\ last_call.time = prev_call.time
          /\ last_call.pixels = prev_call.pixels
          /\ last_call.stats = prev_call.stats
          /\ rcall = None => /\ pixels = prev_call.pixels
                             /\ frame_stats = prev_call.stats

(* A pass of main's loop that moved the camera on its orbit over a scene   *)
(* that is hit, entered with the cleared buffer and stats, followed by a   *)
(* direct call with the same arguments, entered with the buffer and the    *)
(* stats the frame left.                                                   *)
C8_Witness ==
    /\ rcall = None
    /\ prev_call # None /\ last_call # None
    /\ prev_call.in_frame /\ ~last_call.in_frame
    /\ prev_call.dt = last_call.dt
    /\ prev_call.freeze = last_call.freeze
    /\ prev_call.entry_pixels = NoPixels
    /\ prev_call.entry_stats = ZeroStats
    /\ last_call.entry_pixels # prev_call.entry_pixels
    /\ last_call.entry_stats # prev_call.entry_stats
    /\ last_call.dt > EPSILON
    /\ last_call.time > 0 /\ ~last_call.freeze
    /\ last_call.stats.hits > 0

-----------------------------------------------------------------------------
(* Properties of set_voxel (checked under SpecGrid) *)

(* C9: a set_voxel call with a coordinate out of range leaves every cell   *)
(* unchanged; a call in range sets the cell at x + y*GRID_X +              *)
(* z*GRID_X*GRID_Y and leaves every other cell unchanged; after any        *)
(* sequence of calls.  (A cell outside DOMAIN voxels holds 0.)             *)
C9_SetVoxelFrame ==
    last_set # None =>
        LET c   == last_set
            inr == /\ c.x >= 0 /\ c.x < GRID_X
                   /\ c.y >= 0 /\ c.y < GRID_Y
                   /\ c.z >= 0 /\ c.z < GRID_Z
            idx == c.x + c.y * GRID_X + c.z * GRID_X * GRID_Y
            cells == DOMAIN voxels \cup DOMAIN c.before
        IN  /\ DOMAIN voxels \subseteq 0..(GRID_SIZE - 1)
            /\ \A i \in DOMAIN voxels : voxels[i] \in 1..255
            /\ IF inr
               THEN /\ VoxelAt(voxels, idx) = c.value
                    /\ \A i \in cells \ {idx} :
                           VoxelAt(voxels, i) = VoxelAt(c.before, i)
               ELSE \A i \in cells : VoxelAt(voxels, i) = VoxelAt(c.before, i)

(* A second call, one past the last cell of the x axis, on a grid that an  *)
(* earlier call has written.                                               *)
C9_Witness ==
    /\ last_set # None
    /\ nsets >= 2
    /\ last_set.x = GRID_X /\ last_set.y = 0 /\ last_set.z = 5
    /\ last_set.value # 0
    /\ last_set.before # EmptyGrid
    /\ voxels = last_set.before

====
